---- MODULE Spec2Model ----
(***************************************************************************)
(* A model of the uNBT library (src/uNBT/nbt.py, src/uNBT/snbt.py): the    *)
(* tag classes, the binary codec and the SNBT printer and parser.          *)
(*                                                                         *)
(* Representation.                                                         *)
(*  - A Python object is a tuple whose first element names its type, so    *)
(*    that objects of different types are always comparable:               *)
(*      <<"int", b>>  <<"bool", b>>  <<"float", x>>  <<"str", chars>>      *)
(*      <<"NoneType">>  <<"list", items>>                                  *)
(*  - A tag is <<cls, _value>>; a TagList is <<"TagList", item_cls,        *)
(*    _value>>.  Cls, Value and ItemCls read the parts.                    *)
(*  - A Python int is unbounded: it is a record [neg, mag] with mag the    *)
(*    little-endian base-256 digits of its magnitude (no high zero digit). *)
(*  - A str is a sequence of code points; a byte string is a sequence of   *)
(*    integers 0..255.                                                     *)
(***************************************************************************)
EXTENDS Integers, Sequences, FiniteSets, TLC

VARIABLES
    tag,      \* the tag object the program holds (None before any is built)
    op,       \* the operation performed last
    arg,      \* the argument(s) given to it
    raised,   \* the exception it raised ("" when it returned normally)
    ret,      \* what it returned (None when it raised or returns nothing)
    file      \* the bytes (or the text) of the stream read from or written to

vars == <<tag, op, arg, raised, ret, file>>

None == <<"NoneType">>

Min(a, b) == IF a < b THEN a ELSE b
Max(a, b) == IF a > b THEN a ELSE b

(***************************************************************************)
(* Unbounded integers (Python int).                                        *)
(***************************************************************************)
RECURSIVE MagNorm(_)
MagNorm(m) ==
    IF m = <<>> THEN <<>>
    ELSE IF m[Len(m)] = 0 THEN MagNorm(SubSeq(m, 1, Len(m) - 1))
    ELSE m

RECURSIVE MagOf(_)
MagOf(n) == IF n = 0 THEN <<>> ELSE <<n % 256>> \o MagOf(n \div 256)

RECURSIVE MagCmpAt(_, _, _)
MagCmpAt(a, b, i) ==
    IF i = 0 THEN 0
    ELSE IF a[i] < b[i] THEN -1
    ELSE IF a[i] > b[i] THEN 1
    ELSE MagCmpAt(a, b, i - 1)

MagCmp(a, b) ==
    IF Len(a) < Len(b) THEN -1
    ELSE IF Len(a) > Len(b) THEN 1
    ELSE MagCmpAt(a, b, Len(a))

RECURSIVE MagAddC(_, _, _)
MagAddC(a, b, c) ==
    IF a = <<>> /\ b = <<>> THEN (IF c = 0 THEN <<>> ELSE <<c>>)
    ELSE LET x == (IF a = <<>> THEN 0 ELSE Head(a))
                  + (IF b = <<>> THEN 0 ELSE Head(b)) + c
         IN  <<x % 256>> \o MagAddC(IF a = <<>> THEN <<>> ELSE Tail(a),
                                    IF b = <<>> THEN <<>> ELSE Tail(b),
                                    x \div 256)

MagAdd(a, b) == MagAddC(a, b, 0)

\* a - b for a >= b
RECURSIVE MagSubC(_, _, _)
MagSubC(a, b, c) ==
    IF a = <<>> THEN <<>>
    ELSE LET x == Head(a) - (IF b = <<>> THEN 0 ELSE Head(b)) - c
         IN  <<x % 256>> \o MagSubC(Tail(a),
                                    IF b = <<>> THEN <<>> ELSE Tail(b),
                                    IF x < 0 THEN 1 ELSE 0)

MagSub(a, b) == MagNorm(MagSubC(a, b, 0))

\* <<quotient, remainder>> of a by a small k > 0
RECURSIVE MagDivRem(_, _, _)
MagDivRem(a, k, r) ==
    IF a = <<>> THEN <<<<>>, r>>
    ELSE LET x   == r * 256 + a[Len(a)]
             low == MagDivRem(SubSeq(a, 1, Len(a) - 1), k, x % k)
         IN  <<low[1] \o <<x \div k>>, low[2]>>

MagDivSmall(a, k) == MagNorm(MagDivRem(a, k, 0)[1])
MagRemSmall(a, k) == MagDivRem(a, k, 0)[2]

RECURSIVE MagMulC(_, _, _)
MagMulC(a, k, c) ==
    IF a = <<>> THEN MagOf(c)
    ELSE LET x == Head(a) * k + c
         IN  <<x % 256>> \o MagMulC(Tail(a), k, x \div 256)

MagMulSmall(a, k) == MagNorm(MagMulC(a, k, 0))

BigMk(neg, mag) == [neg |-> neg /\ mag # <<>>, mag |-> mag]
Big(n) == IF n < 0 THEN BigMk(TRUE, MagOf(-n)) ELSE BigMk(FALSE, MagOf(n))
BigNeg(x) == BigMk(~x.neg, x.mag)

BigAdd(x, y) ==
    IF x.neg = y.neg THEN BigMk(x.neg, MagAdd(x.mag, y.mag))
    ELSE IF MagCmp(x.mag, y.mag) >= 0 THEN BigMk(x.neg, MagSub(x.mag, y.mag))
    ELSE BigMk(y.neg, MagSub(y.mag, x.mag))

BigSub(x, y) == BigAdd(x, BigNeg(y))

BigLt(x, y) ==
    IF x.neg # y.neg THEN x.neg
    ELSE IF x.neg THEN MagCmp(x.mag, y.mag) > 0
    ELSE MagCmp(x.mag, y.mag) < 0

BigLe(x, y) == x = y \/ BigLt(x, y)

BigMulSmall(x, k) ==
    IF k < 0 THEN BigMk(~x.neg, MagMulSmall(x.mag, -k))
    ELSE BigMk(x.neg, MagMulSmall(x.mag, k))

\* 2 ** e
Pow2(e) ==
    BigMk(FALSE, [i \in 1..(e \div 8 + 1) |->
                    IF i <= e \div 8 THEN 0
                    ELSE CASE e % 8 = 0 -> 1 [] e % 8 = 1 -> 2 [] e % 8 = 2 -> 4
                           [] e % 8 = 3 -> 8 [] e % 8 = 4 -> 16 [] e % 8 = 5 -> 32
                           [] e % 8 = 6 -> 64 [] e % 8 = 7 -> 128])

\* x >> 1 for x >= 0
BigShr1(x) == BigMk(FALSE, MagDivSmall(x.mag, 2))

\* Python's x % m (the result has the sign of m) for m = 256 ** n, n >= 1:
\* every modulus of the program is one (TagByte._mod ... TagLong._mod).
BigMod(x, m) ==
    LET n == Len(m.mag) - 1
        r == MagNorm(SubSeq(x.mag, 1, Min(n, Len(x.mag))))
    IN  IF x.neg /\ r # <<>> THEN BigMk(FALSE, MagSub(m.mag, r))
        ELSE BigMk(FALSE, r)

(***************************************************************************)
(* Python objects and isinstance.                                          *)
(***************************************************************************)
PyInt(b) == <<"int", b>>
PyBool(b) == <<"bool", b>>
PyFloat(x) == <<"float", x>>
PyStr(s) == <<"str", s>>
PyList(s) == <<"list", s>>
PyType(v) == v[1]

\* bool is a subclass of int
isinstance_int(v) == PyType(v) \in {"int", "bool"}
isinstance_float(v) == PyType(v) = "float"
isinstance_str(v) == PyType(v) = "str"

\* int(value) for an instance of int
int(v) == IF PyType(v) = "bool" THEN (IF v[2] THEN Big(1) ELSE Big(0)) ELSE v[2]

(***************************************************************************)
(* Tags.                                                                   *)
(***************************************************************************)
Cls(t) == t[1]
Value(t) == IF t[1] = "TagList" THEN t[3] ELSE t[2]
ItemCls(t) == t[2]
MkTag(cls, value) == <<cls, value>>
MkList(item_cls, items) == <<"TagList", item_cls, items>>

IntegerClasses == {"TagByte", "TagShort", "TagInt", "TagLong"}
FloatClasses == {"TagFloat", "TagDouble"}

\* tagid of every class; the base class Tag is the End kind
tagid(cls) ==
    CASE cls = "Tag" -> 0
      [] cls = "TagByte" -> 1
      [] cls = "TagShort" -> 2
      [] cls = "TagInt" -> 3
      [] cls = "TagLong" -> 4
      [] cls = "TagFloat" -> 5
      [] cls = "TagDouble" -> 6
      [] cls = "TagByteArray" -> 7
      [] cls = "TagString" -> 8
      [] cls = "TagList" -> 9
      [] cls = "TagCompound" -> 10
      [] cls = "TagIntArray" -> 11
      [] cls = "TagLongArray" -> 12

\* the bit width of an integer class: its _mod is 2 ** width
width(cls) ==
    CASE cls = "TagByte" -> 8
      [] cls = "TagShort" -> 16
      [] cls = "TagInt" -> 32
      [] cls = "TagLong" -> 64

_mod(cls) == Pow2(width(cls))

(***************************************************************************)
(* Characters and UTF-8.  A character is its code point, a str a sequence  *)
(* of code points.  Text turns a sequence of one-character TLA+ strings    *)
(* over printable ASCII into a str ("\\u96" stands for the backquote, which *)
(* a TLA+ string cannot hold).                                             *)
(***************************************************************************)
AsciiChars == <<
    " ", "!", "\"", "#", "$", "%", "&", "'", "(", ")", "*", "+",
    ",", "-", ".", "/", "0", "1", "2", "3", "4", "5", "6", "7",
    "8", "9", ":", ";", "<", "=", ">", "?", "@", "A", "B", "C",
    "D", "E", "F", "G", "H", "I", "J", "K", "L", "M", "N", "O",
    "P", "Q", "R", "S", "T", "U", "V", "W", "X", "Y", "Z", "[",
    "\\", "]", "^", "_", "\\u96", "a", "b", "c", "d", "e", "f", "g",
    "h", "i", "j", "k", "l", "m", "n", "o", "p", "q", "r", "s",
    "t", "u", "v", "w", "x", "y", "z", "{", "|", "}", "~"
>>

OrdTable ==
    [c \in {AsciiChars[i] : i \in 1..Len(AsciiChars)} |->
        31 + CHOOSE i \in 1..Len(AsciiChars) : AsciiChars[i] = c]

\* ord(c) of a printable ASCII character
Ord(c) == OrdTable[c]

\* the str of the characters s
Text(s) == [i \in 1..Len(s) |-> Ord(s[i])]

\* the concatenation of the sequences of ss, by halves
RECURSIVE Flatten(_)
Flatten(ss) ==
    IF ss = <<>> THEN <<>>
    ELSE IF Len(ss) = 1 THEN ss[1]
    ELSE Flatten(SubSeq(ss, 1, Len(ss) \div 2))
             \o Flatten(SubSeq(ss, Len(ss) \div 2 + 1, Len(ss)))

\* the UTF-8 bytes of one code point (no surrogates)
Utf8Char(n) ==
    IF n < 128 THEN <<n>>
    ELSE IF n < 2048 THEN <<192 + (n \div 64), 128 + (n % 64)>>
    ELSE IF n < 65536 THEN
        <<224 + (n \div 4096), 128 + ((n \div 64) % 64), 128 + (n % 64)>>
    ELSE <<240 + (n \div 262144), 128 + ((n \div 4096) % 64),
           128 + ((n \div 64) % 64), 128 + (n % 64)>>

\* str.encode('utf-8')
Utf8Encode(str) == Flatten([i \in 1..Len(str) |-> Utf8Char(str[i])])

\* b is a continuation byte
Cont(b) == b >= 128 /\ b <= 191

\* the length of the well-formed UTF-8 sequence that starts b, 0 if none does
Utf8Len(b) ==
    IF b[1] < 128 THEN 1
    ELSE IF b[1] >= 194 /\ b[1] <= 223 /\ Len(b) >= 2 /\ Cont(b[2]) THEN 2
    ELSE IF /\ b[1] >= 224 /\ b[1] <= 239 /\ Len(b) >= 3 /\ Cont(b[2]) /\ Cont(b[3])
            /\ (b[1] = 224 => b[2] >= 160) /\ (b[1] = 237 => b[2] <= 159) THEN 3
    ELSE IF /\ b[1] >= 240 /\ b[1] <= 244 /\ Len(b) >= 4
            /\ Cont(b[2]) /\ Cont(b[3]) /\ Cont(b[4])
            /\ (b[1] = 240 => b[2] >= 144) /\ (b[1] = 244 => b[2] <= 143) THEN 4
    ELSE 0

\* the code point of a well-formed sequence of n bytes at the start of b
Utf8Point(b, n) ==
    CASE n = 1 -> b[1]
      [] n = 2 -> (b[1] - 192) * 64 + (b[2] - 128)
      [] n = 3 -> ((b[1] - 224) * 64 + (b[2] - 128)) * 64 + (b[3] - 128)
      [] n = 4 -> (((b[1] - 240) * 64 + (b[2] - 128)) * 64 + (b[3] - 128)) * 64
                      + (b[4] - 128)

\* bytes.decode('utf-8'): [raised, val]
RECURSIVE Utf8Decode(_)
Utf8Decode(b) ==
    IF b = <<>> THEN [raised |-> "", val |-> <<>>]
    ELSE LET n == Utf8Len(b)
         IN  IF n = 0 THEN [raised |-> "UnicodeDecodeError", val |-> <<>>]
             ELSE LET r == Utf8Decode(SubSeq(b, n + 1, Len(b)))
                  IN  IF r.raised # "" THEN r
                      ELSE [raised |-> "", val |-> <<Utf8Point(b, n)>> \o r.val]

(***************************************************************************)
(* Python floats.  A float is denoted by one of                            *)
(*   <<"dec", neg, digits, exp>>  the double nearest to the decimal        *)
(*        (-1)^neg * digits * 10^exp; digits (most significant first) has  *)
(*        neither a leading nor a trailing zero, zero has no digits;       *)
(*   <<"nan">>                    a NaN;                                   *)
(*   <<"f32", d>>                 the binary32 value nearest to d, for a   *)
(*        decimal d that binary32 does not hold exactly;                   *)
(*   <<"b64", bytes>>             the double with this big-endian pattern; *)
(*   <<"b32", bytes>>             the double equal to the binary32 value   *)
(*        with this big-endian pattern.                                    *)
(* The text side (constructors, SNBT) uses the first three, the binary     *)
(* codec the last two.                                                     *)
(***************************************************************************)
Dec(neg, digits, exp) == <<"dec", neg, digits, exp>>
NaN == <<"nan">>

RECURSIVE DigitsValue(_)
DigitsValue(ds) ==
    IF ds = <<>> THEN 0 ELSE DigitsValue(SubSeq(ds, 1, Len(ds) - 1)) * 10 + ds[Len(ds)]

RECURSIVE Pow(_, _)
Pow(b, e) == IF e = 0 THEN 1 ELSE b * Pow(b, e - 1)

\* whether binary32 holds the decimal exactly, decided for decimals of at
\* most 7 digits (all below 2^24): an integer, or an integer over 2^k
F32Exact(d) ==
    LET m == DigitsValue(d[3])
        e == d[4]
    IN  /\ Len(d[3]) <= 7 /\ e >= -7
        /\ IF e >= 0 THEN Len(d[3]) + e <= 7 ELSE m % Pow(5, -e) = 0

IsNaNBits64(b) ==
    /\ b[1] % 128 = 127 /\ b[2] \div 16 = 15
    /\ (b[2] % 16 # 0 \/ \E i \in 3..8 : b[i] # 0)
IsZeroBits64(b) == b[1] % 128 = 0 /\ \A i \in 2..8 : b[i] = 0
IsNaNBits32(b) ==
    /\ b[1] % 128 = 127 /\ b[2] \div 128 = 1
    /\ (b[2] % 128 # 0 \/ b[3] # 0 \/ b[4] # 0)
IsZeroBits32(b) == b[1] % 128 = 0 /\ \A i \in 2..4 : b[i] = 0

IsNaN(x) ==
    CASE x[1] = "nan" -> TRUE
      [] x[1] = "b64" -> IsNaNBits64(x[2])
      [] x[1] = "b32" -> IsNaNBits32(x[2])
      [] OTHER -> FALSE

IsZero(x) ==
    CASE x[1] = "dec" -> x[3] = <<>>
      [] x[1] = "b64" -> IsZeroBits64(x[2])
      [] x[1] = "b32" -> IsZeroBits32(x[2])
      [] OTHER -> FALSE

\* float.__eq__: a NaN equals nothing, 0.0 equals -0.0
FloatEq(x, y) ==
    IF IsNaN(x) \/ IsNaN(y) THEN FALSE
    ELSE IF IsZero(x) /\ IsZero(y) THEN TRUE
    ELSE x = y

\* a NaN pattern with its quiet bit set: what the conversion between
\* binary32 and binary64 makes of a signalling NaN
QuietBits32(b) ==
    IF IsNaNBits32(b) /\ b[2] % 128 < 64 THEN <<b[1], b[2] + 64, b[3], b[4]>> ELSE b

\* _struct_float.unpack(_struct_float.pack(value)): value rounded to binary32
round_f32(x) ==
    CASE x[1] = "dec" -> IF F32Exact(x) THEN x ELSE <<"f32", x>>
      [] x[1] = "b32" -> <<"b32", QuietBits32(x[2])>>
      [] OTHER -> x

(***************************************************************************)
(* Scalar tags: _TagNumber, TagDouble, TagFloat, TagString.                *)
(* A call returns [raised, val]: the exception it raised ("" for none) and *)
(* the _value the object holds afterwards.                                 *)
(***************************************************************************)
Raise(e, old) == [raised |-> e, val |-> old]
Return(v) == [raised |-> "", val |-> v]

TagNumber_init_NoWrapDown(cls, value, old) ==
    IF ~isinstance_int(value) THEN Raise("ValueError", old)
    ELSE Return(BigMod(int(value), _mod(cls)))

TagNumber_init_NoCheck(cls, value, old) ==
    IF ~isinstance_int(value) THEN Return(Big(0))
    ELSE LET mod == _mod(cls)
             v   == BigMod(int(value), mod)
         IN  IF BigLt(v, BigShr1(mod)) THEN Return(v) ELSE Return(BigSub(v, mod))

\* _TagNumber.__init__(self, value); old is self._value before the call
TagNumber_init(cls, value, old) ==
    IF ~isinstance_int(value) THEN Raise("ValueError", old)
    ELSE LET mod == _mod(cls)
             v   == BigMod(int(value), mod)
         IN  IF BigLt(v, BigShr1(mod)) THEN Return(v) ELSE Return(BigSub(v, mod))

TagDouble_init(value, old) ==
    IF ~isinstance_float(value) THEN Raise("ValueError", old)
    ELSE Return(value[2])

TagFloat_init(value, old) ==
    IF ~isinstance_float(value) THEN Raise("ValueError", old)
    ELSE Return(round_f32(value[2]))

TagString_init(value, old) ==
    IF ~isinstance_str(value) THEN Raise("ValueError", old)
    ELSE Return(value[2])

ScalarClasses == IntegerClasses \cup FloatClasses \cup {"TagString"}

\* cls.__init__(self, value)
Scalar_init(cls, value, old) ==
    CASE cls \in IntegerClasses -> TagNumber_init(cls, value, old)
      [] cls = "TagDouble" -> TagDouble_init(value, old)
      [] cls = "TagFloat" -> TagFloat_init(value, old)
      [] cls = "TagString" -> TagString_init(value, old)

\* the default of the value parameter
DefaultValue(cls) ==
    CASE cls \in IntegerClasses -> PyInt(Big(0))
      [] cls \in FloatClasses -> PyFloat(Dec(FALSE, <<>>, 0))
      [] cls = "TagString" -> PyStr(<<>>)

\* the value setter: self.__init__(new_value)
value_setter(self, new_value) == Scalar_init(Cls(self), new_value, Value(self))

(***************************************************************************)
(* Scalar tags as a state machine: the program builds a scalar tag and     *)
(* assigns to its value.                                                   *)
(***************************************************************************)
\* how many half-moduli the integer inputs reach on either side of zero
MaxHalves == 2

TestInts ==
    {BigAdd(BigMulSmall(Pow2(width(c) - 1), j), Big(o)) :
        c \in IntegerClasses, j \in (-MaxHalves)..MaxHalves, o \in {-1, 0, 1}}
    \cup {BigAdd(Big(123), BigMulSmall(_mod(c), 5)) : c \in IntegerClasses}
    \cup {BigAdd(Big(-123), BigMulSmall(_mod(c), 8)) : c \in IntegerClasses}

TestFloats == {Dec(FALSE, <<>>, 0), Dec(FALSE, <<1, 5>>, -1), Dec(TRUE, <<1>>, -1), NaN}
TestStrs == {<<>>, Text(<<"1">>), Text(<<"a", "b">>)}

PyValues ==
    {PyInt(b) : b \in TestInts} \cup {PyBool(TRUE), PyBool(FALSE)}
    \cup {PyFloat(x) : x \in TestFloats} \cup {PyStr(s) : s \in TestStrs}
    \cup {None}

ScalarInit ==
    /\ tag = None /\ op = "start" /\ arg = None /\ raised = "" /\ ret = None
    /\ file = <<>>

\* tag = cls(value), the program's first statement
Construct(cls, value) ==
    /\ op = "start"
    /\ LET r == Scalar_init(cls, value, None)
       IN  /\ raised' = r.raised
           /\ ret' = IF r.raised = "" THEN MkTag(cls, r.val) ELSE None
           /\ tag' = IF r.raised = "" THEN MkTag(cls, r.val) ELSE tag
    /\ op' = "construct" /\ arg' = <<cls, value>>
    /\ UNCHANGED file

\* tag = cls()
ConstructDefault(cls) ==
    /\ op = "start"
    /\ LET r == Scalar_init(cls, DefaultValue(cls), None)
       IN  /\ raised' = r.raised
           /\ ret' = IF r.raised = "" THEN MkTag(cls, r.val) ELSE None
           /\ tag' = IF r.raised = "" THEN MkTag(cls, r.val) ELSE tag
    /\ op' = "construct_default" /\ arg' = <<cls>>
    /\ UNCHANGED file

\* tag.value = new_value
SetValue(new_value) ==
    /\ tag # None /\ Cls(tag) \in ScalarClasses
    /\ LET r == value_setter(tag, new_value)
       IN  /\ raised' = r.raised
           /\ tag' = MkTag(Cls(tag), r.val)
    /\ ret' = None
    /\ op' = "set_value" /\ arg' = <<Cls(tag), new_value>>
    /\ UNCHANGED file

ScalarNext ==
    \/ \E cls \in ScalarClasses, value \in PyValues : Construct(cls, value)
    \/ \E cls \in ScalarClasses : ConstructDefault(cls)
    \/ \E value \in PyValues : SetValue(value)

SpecScalar == ScalarInit /\ [][ScalarNext]_vars

\* the class and the value of the last constructor or setter call
ArgCls == arg[1]
ArgValue == arg[2]

\* ((v + M/2) mod M) - M/2
WrapFormula(v, M) == BigSub(BigMod(BigAdd(v, BigShr1(M)), M), BigShr1(M))

InSignedRange(v, M) == BigLe(BigNeg(BigShr1(M)), v) /\ BigLt(v, BigShr1(M))

(* C4: for TagByte, TagShort, TagInt and TagLong with M = 2^width, the
   constructor Tag(v) and the assignment tag.value = v store
   ((v + M/2) mod M) - M/2 for every integer v, the stored value lies in
   [-M/2, M/2 - 1], and Tag() holds 0. *)
C4_IntegerWrap ==
    /\ (op \in {"construct", "set_value"} /\ ArgCls \in IntegerClasses
            /\ PyType(ArgValue) = "int")
        => /\ raised = ""
           /\ Cls(tag) = ArgCls
           /\ Value(tag) = WrapFormula(ArgValue[2], Pow2(width(ArgCls)))
           /\ InSignedRange(Value(tag), Pow2(width(ArgCls)))
    /\ (op = "construct_default" /\ ArgCls \in IntegerClasses)
        => raised = "" /\ tag = MkTag(ArgCls, Big(0))

\* an assignment of 2^31 to a TagInt wrapped to -2^31
C4_Witness ==
    /\ op = "set_value" /\ ArgCls = "TagInt" /\ ArgValue = PyInt(Pow2(31))
    /\ tag = MkTag("TagInt", BigNeg(Pow2(31)))

WrongType(cls, value) ==
    \/ cls \in IntegerClasses /\ ~(PyType(value) \in {"int", "bool"})
    \/ cls \in FloatClasses /\ PyType(value) # "float"
    \/ cls = "TagString" /\ PyType(value) # "str"

(* C5: constructing an integer tag with a non-integer, a TagFloat or
   TagDouble with a non-float (an integer included) or a TagString with a
   non-string raises ValueError and creates no tag; the same inputs given to
   the value setter raise ValueError and leave the stored value unchanged. *)
C5_ScalarTypeRejection ==
    [][/\ (op' = "construct" /\ WrongType(arg'[1], arg'[2]))
            => raised' = "ValueError" /\ ret' = None /\ tag' = tag
       /\ (op' = "set_value" /\ WrongType(arg'[1], arg'[2]))
            => raised' = "ValueError" /\ tag' = tag]_vars

\* a TagDouble refused the assignment of an integer and kept its value
C5_Witness ==
    /\ op = "set_value" /\ ArgCls = "TagDouble" /\ ArgValue = PyInt(Big(1))
    /\ raised = "ValueError"
    /\ tag = MkTag("TagDouble", Dec(FALSE, <<1, 5>>, -1))

(***************************************************************************)
(* struct: big-endian two's complement.                                    *)
(***************************************************************************)
Reverse(s) == [i \in 1..Len(s) |-> s[Len(s) + 1 - i]]
Zeros(n) == [i \in 1..n |-> 0]
Pow256(n) == BigMk(FALSE, Zeros(n) \o <<1>>)

\* the n big-endian bytes of v, for -2^(8n-1) <= v < 2^(8n-1)
PackInt(v, n) ==
    LET m == IF v.neg THEN MagSub(Pow256(n).mag, v.mag) ELSE v.mag
    IN  Reverse(m \o Zeros(n - Len(m)))

\* the signed integer that the big-endian bytes b hold
UnpackInt(b) ==
    LET u == MagNorm(Reverse(b))
    IN  IF b[1] >= 128 THEN BigMk(TRUE, MagSub(Pow256(Len(b)).mag, u))
        ELSE BigMk(FALSE, u)

\* a Python int of at most 32 bits as a number of the model, and back
Small(v) ==
    LET m == v.mag \o Zeros(4 - Len(v.mag))
        n == ((m[4] * 256 + m[3]) * 256 + m[2]) * 256 + m[1]
    IN  IF v.neg THEN IF m[4] = 128 THEN (-2147483647) - 1 ELSE -n ELSE n

\* struct.Struct('>b'), ('>h'), ('>i'), ('>q') .size
fmt_size(cls) == width(cls) \div 8

SignedShortMax == 32767

(***************************************************************************)
(* Python dict: a sequence of <<key, value>> in insertion order.           *)
(***************************************************************************)
DictKeys(d) == [i \in 1..Len(d) |-> d[i][1]]
DictHas(d, k) == \E i \in 1..Len(d) : d[i][1] = k
DictIndex(d, k) == CHOOSE i \in 1..Len(d) : d[i][1] = k
DictGet(d, k) == d[DictIndex(d, k)][2]

DictSet_MoveToEnd(d, k, v) ==
    LET i == IF DictHas(d, k) THEN DictIndex(d, k) ELSE Len(d) + 1
    IN  SubSeq(d, 1, i - 1) \o SubSeq(d, i + 1, Len(d)) \o <<<<k, v>>>>

\* d[k] = v: an existing key keeps its place, a new one goes last
DictSet(d, k, v) ==
    IF DictHas(d, k) THEN [d EXCEPT ![DictIndex(d, k)] = <<k, v>>]
    ELSE Append(d, <<k, v>>)

\* del d[k], for a key of d
DictDel(d, k) ==
    LET i == DictIndex(d, k)
    IN  SubSeq(d, 1, i - 1) \o SubSeq(d, i + 1, Len(d))

(***************************************************************************)
(* The binary codec.  A stream is the sequence of bytes not yet read; a    *)
(* read returns [raised, val, rest].                                       *)
(***************************************************************************)
TagClasses ==
    {"TagByte", "TagShort", "TagInt", "TagLong", "TagFloat", "TagDouble",
     "TagByteArray", "TagString", "TagList", "TagCompound", "TagIntArray",
     "TagLongArray"}

ArrayClasses == {"TagByteArray", "TagIntArray", "TagLongArray"}

IsTag(v) == v[1] \in TagClasses

\* _tagid_class_mapping
tagid_class_mapping ==
    [i \in 0..12 |-> CHOOSE c \in TagClasses \cup {"Tag"} : tagid(c) = i]

\* the item size of the array behind an array tag (_itype 'b', 'i', 'q')
itemsize(cls) ==
    CASE cls = "TagByteArray" -> 1
      [] cls = "TagIntArray" -> 4
      [] cls = "TagLongArray" -> 8

Fail(e, s) == [raised |-> e, val |-> None, rest |-> s]
Done(v, s) == [raised |-> "", val |-> v, rest |-> s]

\* x = v; F(x): the value v is computed once, whatever F does with it
Bind(v, F(_)) == CHOOSE y \in {F(x) : x \in {v}} : TRUE

\* stream.read(n): <<the bytes read, the stream after>>; all of it for n < 0
stream_read(s, n) ==
    IF n < 0 \/ n >= Len(s) THEN <<s, <<>>>>
    ELSE <<SubSeq(s, 1, n), SubSeq(s, n + 1, Len(s))>>

\* _struct_short.unpack: a signed 16-bit count
struct_short_unpack(b) == Small(UnpackInt(b))

\* _struct_int.unpack: a signed 32-bit count
struct_int_unpack(b) == Small(UnpackInt(b))

\* _compound_read_name(stream)
compound_read_name(s) ==
    Bind(stream_read(s, 2), LAMBDA h :
        IF Len(h[1]) # 2 THEN Fail("struct.error", h[2])
        ELSE Bind(stream_read(h[2], struct_short_unpack(h[1])), LAMBDA raw :
             Bind(Utf8Decode(raw[1]), LAMBDA str :
                 IF str.raised # "" THEN Fail(str.raised, raw[2])
                 ELSE Done(str.val, raw[2]))))

\* _TagNumber.read for the integer classes
TagNumber_read(cls, s) ==
    Bind(stream_read(s, fmt_size(cls)), LAMBDA b :
        IF Len(b[1]) # fmt_size(cls) THEN Fail("struct.error", b[2])
        ELSE Done(MkTag(cls, TagNumber_init(cls, PyInt(UnpackInt(b[1])), None).val), b[2]))

\* _TagNumber.read as TagFloat and TagDouble inherit it
TagFloat_read(s) ==
    Bind(stream_read(s, 4), LAMBDA b :
        IF Len(b[1]) # 4 THEN Fail("struct.error", b[2])
        ELSE Done(MkTag("TagFloat", TagFloat_init(PyFloat(<<"b32", b[1]>>), None).val), b[2]))

TagDouble_read(s) ==
    Bind(stream_read(s, 8), LAMBDA b :
        IF Len(b[1]) # 8 THEN Fail("struct.error", b[2])
        ELSE Done(MkTag("TagDouble", TagDouble_init(PyFloat(<<"b64", b[1]>>), None).val), b[2]))

\* the elements of an array read from n * itemsize bytes
ArrayItems(b, size) ==
    [i \in 1..(Len(b) \div size) |-> UnpackInt(SubSeq(b, (i - 1) * size + 1, i * size))]

\* array.fromfile that takes a negative count for no elements
array_fromfile_NegativeAsEmpty(cls, h, length) ==
    IF length < 0 THEN Done(MkTag(cls, <<>>), h)
    ELSE IF Len(h) \div itemsize(cls) < length THEN
        IF Len(h) % itemsize(cls) # 0 THEN Fail("ValueError", <<>>)
        ELSE Fail("EOFError", <<>>)
    ELSE Bind(stream_read(h, length * itemsize(cls)), LAMBDA b :
             Done(MkTag(cls, ArrayItems(b[1], itemsize(cls))), b[2]))

\* array.fromfile(stream, length), then byteswap, on the stream h after the
\* count
array_fromfile(cls, h, length) ==
    IF length < 0 THEN Fail("ValueError", h)
    ELSE IF Len(h) \div itemsize(cls) < length THEN
        IF Len(h) % itemsize(cls) # 0 THEN Fail("ValueError", <<>>)
        ELSE Fail("EOFError", <<>>)
    ELSE Bind(stream_read(h, length * itemsize(cls)), LAMBDA b :
             Done(MkTag(cls, ArrayItems(b[1], itemsize(cls))), b[2]))

\* _TagNumberArray.read
TagNumberArray_read(cls, s) ==
    Bind(stream_read(s, 4), LAMBDA h :
        IF Len(h[1]) # 4 THEN Fail("struct.error", h[2])
        ELSE array_fromfile(cls, h[2], struct_int_unpack(h[1])))

\* TagString.read
TagString_read(s) ==
    Bind(compound_read_name(s), LAMBDA r :
        IF r.raised # "" THEN r
        ELSE Done(MkTag("TagString", TagString_init(PyStr(r.val), None).val), r.rest))

RECURSIVE Tag_read(_, _)
RECURSIVE TagList_read_items(_, _, _, _)
RECURSIVE TagCompound_read_loop(_, _)

\* [itemcls_read(stream) for _ in range(size)], tags being the items read
TagList_read_items(itemcls, s, size, tags) ==
    IF size <= 0 THEN Done(tags, s)
    ELSE Bind(Tag_read(itemcls, s), LAMBDA r :
             IF r.raised # "" THEN r
             ELSE TagList_read_items(itemcls, r.rest, size - 1, Append(tags, r.val)))

TagList_read_EmptyAsEnd(s) ==
    Bind(stream_read(s, 1), LAMBDA h :
        IF h[1] = <<>> THEN Fail("IndexError", h[2])
        ELSE IF ~(h[1][1] \in DOMAIN tagid_class_mapping) THEN Fail("NbtUnpackError", h[2])
        ELSE Bind(stream_read(h[2], 4), LAMBDA n :
            IF Len(n[1]) # 4 THEN Fail("struct.error", n[2])
            ELSE Bind(TagList_read_items(tagid_class_mapping[h[1][1]], n[2],
                                         struct_int_unpack(n[1]), <<>>), LAMBDA r :
                     IF r.raised # "" THEN r
                     ELSE IF r.val = <<>> THEN Done(MkList("Tag", <<>>), r.rest)
                     ELSE Done(MkList(tagid_class_mapping[h[1][1]], r.val), r.rest))))

\* TagList.read
TagList_read(s) ==
    Bind(stream_read(s, 1), LAMBDA h :
        IF h[1] = <<>> THEN Fail("IndexError", h[2])
        ELSE IF ~(h[1][1] \in DOMAIN tagid_class_mapping) THEN Fail("NbtUnpackError", h[2])
        ELSE Bind(stream_read(h[2], 4), LAMBDA n :
            IF Len(n[1]) # 4 THEN Fail("struct.error", n[2])
            ELSE Bind(TagList_read_items(tagid_class_mapping[h[1][1]], n[2],
                                         struct_int_unpack(n[1]), <<>>), LAMBDA r :
                     IF r.raised # "" THEN r
                     ELSE Done(MkList(tagid_class_mapping[h[1][1]], r.val), r.rest))))

\* the loop of TagCompound.read, tagdict being the entries read
TagCompound_read_loop(s, tagdict) ==
    Bind(stream_read(s, 1), LAMBDA h :
        IF h[1] = <<>> THEN Fail("IndexError", h[2])
        ELSE IF h[1][1] = 0 THEN Done(MkTag("TagCompound", tagdict), h[2])
        ELSE IF ~(h[1][1] \in DOMAIN tagid_class_mapping) THEN Fail("NbtUnpackError", h[2])
        ELSE Bind(compound_read_name(h[2]), LAMBDA name :
            IF name.raised # "" THEN name
            ELSE Bind(Tag_read(tagid_class_mapping[h[1][1]], name.rest), LAMBDA t :
                     IF t.raised # "" THEN t
                     ELSE TagCompound_read_loop(t.rest,
                              DictSet(tagdict, PyStr(name.val), t.val)))))

\* TagCompound.read
TagCompound_read(s) == TagCompound_read_loop(s, <<>>)

\* cls.read(stream)
Tag_read(cls, s) ==
    CASE cls = "Tag" -> Fail("NotImplementedError", s)
      [] cls \in IntegerClasses -> TagNumber_read(cls, s)
      [] cls = "TagFloat" -> TagFloat_read(s)
      [] cls = "TagDouble" -> TagDouble_read(s)
      [] cls \in ArrayClasses -> TagNumberArray_read(cls, s)
      [] cls = "TagString" -> TagString_read(s)
      [] cls = "TagList" -> TagList_read(s)
      [] cls = "TagCompound" -> TagCompound_read(s)

GzipMagic == <<31, 139>>

read_nbt_file_CompoundOnly(stream) ==
    Bind(stream_read(stream, 1), LAMBDA h :
        IF h[1] = <<>> THEN Fail("IndexError", h[2])
        ELSE IF h[1][1] # 10 THEN Fail("NbtUnpackError", h[2])
        ELSE Bind(compound_read_name(h[2]), LAMBDA name :
            IF name.raised # "" THEN name
            ELSE Bind(Tag_read(tagid_class_mapping[h[1][1]], name.rest), LAMBDA root :
                     IF root.raised # "" THEN root
                     ELSE Done(<<root.val, PyStr(name.val)>>, root.rest))))

\* read_nbt_file(file, with_name=True) on an uncompressed in-memory stream
\* (the first two bytes are not the gzip magic): val is <<root, root_name>>
read_nbt_file(stream) ==
    Bind(stream_read(stream, 1), LAMBDA h :
        IF h[1] = <<>> THEN Fail("IndexError", h[2])
        ELSE IF h[1][1] = 0 \/ ~(h[1][1] \in DOMAIN tagid_class_mapping)
            THEN Fail("NbtUnpackError", h[2])
        ELSE Bind(compound_read_name(h[2]), LAMBDA name :
            IF name.raised # "" THEN name
            ELSE Bind(Tag_read(tagid_class_mapping[h[1][1]], name.rest), LAMBDA root :
                     IF root.raised # "" THEN root
                     ELSE Done(<<root.val, PyStr(name.val)>>, root.rest))))

(***************************************************************************)
(* Writing.  A write returns [raised, out]: the exception it raised and    *)
(* the bytes it put on the stream before that.                             *)
(***************************************************************************)
WFail(e) == [raised |-> e, out |-> <<>>]
WDone(b) == [raised |-> "", out |-> b]

\* two writes in a row
Then(w1, w2) ==
    Bind(w1, LAMBDA a :
        IF a.raised # "" THEN a
        ELSE Bind(w2, LAMBDA b : [raised |-> b.raised, out |-> a.out \o b.out]))

\* _struct_short.pack(n), n >= 0
struct_short_pack(n) ==
    IF n > SignedShortMax THEN WFail("struct.error") ELSE WDone(PackInt(Big(n), 2))

\* _struct_int.pack(n) for the length of a sequence of the model
struct_int_pack(n) == WDone(PackInt(Big(n), 4))

\* _compound_write_name(stream, name)
compound_write_name(name) ==
    IF ~isinstance_str(name) THEN WFail("AttributeError")
    ELSE Bind(Utf8Encode(name[2]), LAMBDA raw :
             Then(struct_short_pack(Len(raw)), WDone(raw)))

\* self._fmt.pack(self._value) of TagFloat ('>f') and TagDouble ('>d'), for
\* the values the binary codec and a zero default give
FloatBytes(x, n) ==
    CASE x[1] = "b32" /\ n = 4 -> x[2]
      [] x[1] = "b64" /\ n = 8 -> x[2]
      [] x[1] = "dec" /\ x[3] = <<>> -> <<IF x[2] THEN 128 ELSE 0>> \o Zeros(n - 1)

\* _TagNumber.write
TagNumber_write(t) ==
    IF Cls(t) \in IntegerClasses THEN WDone(PackInt(Value(t), fmt_size(Cls(t))))
    ELSE WDone(FloatBytes(Value(t), IF Cls(t) = "TagFloat" THEN 4 ELSE 8))

\* _TagNumberArray.write
TagNumberArray_write(t) ==
    Then(struct_int_pack(Len(Value(t))),
         WDone(Flatten([i \in 1..Len(Value(t)) |-> PackInt(Value(t)[i], itemsize(Cls(t)))])))

\* TagString.write
TagString_write(t) ==
    Bind(Utf8Encode(Value(t)), LAMBDA raw :
        Then(struct_short_pack(Len(raw)), WDone(raw)))

RECURSIVE Tag_write(_)
RECURSIVE TagList_write_items(_, _)
RECURSIVE TagCompound_write_items(_, _)

\* for tag in self._value: tag.write(stream), from the i-th on
TagList_write_items(tags, i) ==
    IF i > Len(tags) THEN WDone(<<>>)
    ELSE Then(Tag_write(tags[i]), TagList_write_items(tags, i + 1))

\* TagList.write
TagList_write(t) ==
    Then(WDone(<<tagid(ItemCls(t))>>),
    Then(struct_int_pack(Len(t[3])),
         TagList_write_items(t[3], 1)))

\* the loop of TagCompound.write over self._value.items(), from the i-th on
TagCompound_write_items(d, i) ==
    IF i > Len(d) THEN WDone(<<>>)
    ELSE Then(WDone(<<tagid(Cls(d[i][2]))>>),
         Then(compound_write_name(d[i][1]),
         Then(Tag_write(d[i][2]),
              TagCompound_write_items(d, i + 1))))

\* TagCompound.write
TagCompound_write(t) == Then(TagCompound_write_items(Value(t), 1), WDone(<<0>>))

\* tag.write(stream)
Tag_write(t) ==
    CASE Cls(t) \in IntegerClasses \cup FloatClasses -> TagNumber_write(t)
      [] Cls(t) \in ArrayClasses -> TagNumberArray_write(t)
      [] Cls(t) = "TagString" -> TagString_write(t)
      [] Cls(t) = "TagList" -> TagList_write(t)
      [] Cls(t) = "TagCompound" -> TagCompound_write(t)

\* write_nbt_file(file, root, root_name=root_name, compress=False)
write_nbt_file(root, root_name) ==
    IF ~IsTag(root) THEN WFail("NbtInvalidOperation")
    ELSE Then(WDone(<<tagid(Cls(root))>>),
         Then(compound_write_name(root_name),
              Tag_write(root)))

(***************************************************************************)
(* TagList.  A class is named by its name: the twelve tag classes, their   *)
(* base "Tag", and "int" for a class that is no tag class.  An operation   *)
(* returns [raised, val], val being the list tag afterwards.               *)
(***************************************************************************)
\* issubclass(cls, Tag)
issubclass_Tag(cls) == cls \in TagClasses \cup {"Tag"}

\* isinstance(item, cls) for a tag class or Tag
isinstance_cls(item, cls) == IsTag(item) /\ (cls = "Tag" \/ Cls(item) = cls)

\* Python's list index: the position (from 1) that index names in a list of
\* n elements, 0 when it is out of range
ListPos(index, n) ==
    LET p == IF index < 0 THEN index + n ELSE index
    IN  IF p >= 0 /\ p < n THEN p + 1 ELSE 0

\* list.insert(index, x)
list_insert(s, index, x) ==
    LET p == IF index < 0 THEN Max(index + Len(s), 0) ELSE Min(index, Len(s))
    IN  SubSeq(s, 1, p) \o <<x>> \o SubSeq(s, p + 1, Len(s))

\* s[start:stop] = items, for start, stop >= 0
list_setslice(s, start, stop, items) ==
    LET lo == Min(start, Len(s))
        hi == Max(lo, Min(stop, Len(s)))
    IN  SubSeq(s, 1, lo) \o items \o SubSeq(s, hi + 1, Len(s))

\* TagList.__init__(self, item_cls, items); items is None or a Python list
TagList_init(item_cls, items, old) ==
    IF ~issubclass_Tag(item_cls) THEN Raise("NbtInvalidOperation", old)
    ELSE IF items # None THEN
        IF ~(\A i \in 1..Len(items[2]) : PyType(items[2][i]) = item_cls)
        THEN Raise("NbtInvalidOperation", old)
        ELSE Return(MkList(item_cls, items[2]))
    ELSE Return(MkList(item_cls, <<>>))

\* TagList.__setitem__(self, index, item) for an int index
TagList_setitem(self, index, item) ==
    IF ~isinstance_cls(item, ItemCls(self)) THEN Raise("NbtInvalidOperation", self)
    ELSE IF ListPos(index, Len(self[3])) = 0 THEN Raise("IndexError", self)
    ELSE Return(MkList(ItemCls(self),
                       [self[3] EXCEPT ![ListPos(index, Len(self[3]))] = item]))

\* TagList.__setitem__(self, slice(start, stop), items)
TagList_setslice(self, start, stop, items) ==
    IF ItemCls(self) = "Tag" THEN
        IF items # <<>> THEN
            LET new_cls == PyType(items[1])
            IN  IF ~issubclass_Tag(new_cls) THEN Raise("NbtInvalidOperation", self)
                ELSE IF ~(\A i \in 1..Len(items) : isinstance_cls(items[i], new_cls))
                    THEN Raise("NbtInvalidOperation", self)
                ELSE Return(MkList(new_cls, list_setslice(self[3], start, stop, items)))
        ELSE Return(self)
    ELSE IF ~(\A i \in 1..Len(items) : isinstance_cls(items[i], ItemCls(self)))
        THEN Raise("NbtInvalidOperation", self)
    ELSE Return(MkList(ItemCls(self), list_setslice(self[3], start, stop, items)))

\* TagList.__delitem__(self, index) for an int index
TagList_delitem(self, index) ==
    LET p == ListPos(index, Len(self[3]))
    IN  IF p = 0 THEN Raise("IndexError", self)
        ELSE Return(MkList(ItemCls(self),
                           SubSeq(self[3], 1, p - 1) \o SubSeq(self[3], p + 1, Len(self[3]))))

TagList_insert_NoCheck(self, index, t) ==
    Return(MkList(ItemCls(self), list_insert(self[3], index, t)))

\* TagList.insert(self, index, tag)
TagList_insert(self, index, t) ==
    IF PyType(t) # ItemCls(self) THEN
        IF ItemCls(self) = "Tag" THEN
            IF ~issubclass_Tag(PyType(t)) THEN Raise("NbtInvalidOperation", self)
            ELSE Return(MkList(PyType(t), list_insert(self[3], index, t)))
        ELSE Raise("NbtInvalidOperation", self)
    ELSE Return(MkList(ItemCls(self), list_insert(self[3], index, t)))

\* MutableSequence.append: self.insert(len(self), value)
TagList_append(self, t) == TagList_insert(self, Len(self[3]), t)

\* MutableSequence.extend: for v in values: self.append(v)
RECURSIVE TagList_extend(_, _)
TagList_extend(self, values) ==
    IF values = <<>> THEN Return(self)
    ELSE LET r == TagList_append(self, Head(values))
         IN  IF r.raised # "" THEN r ELSE TagList_extend(r.val, Tail(values))


(***************************************************************************)
(* TagList as a state machine: the program builds a list and then assigns  *)
(* to indices and slices, inserts, appends, extends and deletes.           *)
(***************************************************************************)
\* the longest list the operations grow
MaxListLen == 3

\* what the program offers as elements: tags of two kinds and a non-tag
ListItems ==
    {MkTag("TagByte", Big(1)), MkTag("TagByte", Big(2)), MkTag("TagInt", Big(1)),
     PyInt(Big(5))}

\* sequences of up to two of them
ListItemSeqs ==
    {<<>>} \cup {<<a>> : a \in ListItems} \cup {<<a, b>> : a, b \in ListItems}

ListItemClasses == {"TagByte", "TagInt", "Tag", "int"}

IsList(t) == t # None /\ Cls(t) = "TagList"

ListInit ==
    /\ tag = None /\ op = "start" /\ arg = None /\ raised = "" /\ ret = None
    /\ file = <<>>

\* the outcome r of a method of the list in tag
ListStep(name, args, r) ==
    /\ tag' = r.val /\ raised' = r.raised /\ ret' = None
    /\ op' = name /\ arg' = args
    /\ UNCHANGED file

\* tag = TagList(item_cls, items)
ListConstruct(item_cls, items) ==
    /\ op = "start"
    /\ ListStep("list_init", <<item_cls, items>>, TagList_init(item_cls, items, None))

\* tag[index] = item
ListSetItem(index, item) ==
    /\ IsList(tag)
    /\ ListStep("list_setitem", <<index, item>>, TagList_setitem(tag, index, item))

\* tag[start:stop] = items
ListSetSlice(start, stop, items) ==
    /\ IsList(tag) /\ Len(tag[3]) + Len(items) <= MaxListLen
    /\ ListStep("list_setslice", <<start, stop, items>>,
                TagList_setslice(tag, start, stop, items))

\* tag.insert(index, item)
ListInsert(index, item) ==
    /\ IsList(tag) /\ Len(tag[3]) < MaxListLen
    /\ ListStep("list_insert", <<index, item>>, TagList_insert(tag, index, item))

\* tag.append(item)
ListAppend(item) ==
    /\ IsList(tag) /\ Len(tag[3]) < MaxListLen
    /\ ListStep("list_append", <<item>>, TagList_append(tag, item))

\* tag.extend(values)
ListExtend(values) ==
    /\ IsList(tag) /\ Len(tag[3]) + Len(values) <= MaxListLen
    /\ ListStep("list_extend", <<values>>, TagList_extend(tag, values))

\* del tag[index]
ListDelItem(index) ==
    /\ IsList(tag)
    /\ ListStep("list_delitem", <<index>>, TagList_delitem(tag, index))

ListNext ==
    \/ \E item_cls \in ListItemClasses,
          items \in {PyList(s) : s \in ListItemSeqs} \cup {None} :
           ListConstruct(item_cls, items)
    \/ \E index \in (-MaxListLen - 1)..MaxListLen, item \in ListItems :
           ListSetItem(index, item)
    \/ \E start \in 0..MaxListLen, stop \in 0..MaxListLen, items \in ListItemSeqs :
           ListSetSlice(start, stop, items)
    \/ \E index \in (-MaxListLen - 1)..(MaxListLen + 1), item \in ListItems :
           ListInsert(index, item)
    \/ \E item \in ListItems : ListAppend(item)
    \/ \E values \in ListItemSeqs : ListExtend(values)
    \/ \E index \in (-MaxListLen - 1)..MaxListLen : ListDelItem(index)

SpecList == ListInit /\ [][ListNext]_vars

\* every element's concrete kind is the list's item_cls
Homogeneous(t) == \A i \in 1..Len(t[3]) : PyType(t[3][i]) = ItemCls(t)

\* the elements that the operation op' of a step was given
GivenElements(o, a) ==
    CASE o = "list_init" ->
            IF a[2] = None THEN {} ELSE {a[2][2][i] : i \in 1..Len(a[2][2])}
      [] o \in {"list_setitem", "list_insert"} -> {a[2]}
      [] o = "list_setslice" -> {a[3][i] : i \in 1..Len(a[3])}
      [] OTHER -> {}

\* the item_cls that the operation of a step met: the constructor's argument,
\* or that of the list operated on
MetItemCls(o, a, t) == IF o = "list_init" THEN a[1] ELSE ItemCls(t)

\* the step was given an element of a kind other than the list's
GivenWrongKind == \E e \in GivenElements(op', arg') : PyType(e) # MetItemCls(op', arg', tag)

CheckedOps == {"list_init", "list_setitem", "list_setslice", "list_insert"}

\* C6 as stated: homogeneity always, and the four operations raise
\* NbtInvalidOperation for an element of another kind whatever item_cls is
C6_AsStated ==
    /\ [](IsList(tag) => Homogeneous(tag))
    /\ [][(op' \in CheckedOps /\ GivenWrongKind) => raised' = "NbtInvalidOperation"]_vars

(* C6: after any sequence of index assignment, slice assignment, insert,
   append, extend and delete (successful or failed) on a TagList every
   element's concrete kind equals the list's current item_cls.  When
   item_cls is one of the twelve concrete tag classes, the constructor, index
   assignment, slice assignment and insert raise NbtInvalidOperation for an
   element of another kind and leave the list as it was.  When item_cls is
   the base class Tag (a list that is always empty): the constructor still
   raises; index assignment raises NbtInvalidOperation for a non-tag and
   IndexError for a tag; insert of a tag and slice assignment of a non-empty
   sequence of tags of one kind succeed and make that kind the item_cls;
   insert of a non-tag, and slice assignment of a sequence that starts with a
   non-tag or mixes kinds, raise NbtInvalidOperation. *)
C6_ListHomogeneity ==
    /\ [](IsList(tag) => Homogeneous(tag))
    /\ [][(op' \in CheckedOps /\ GivenWrongKind) =>
            LET cls   == MetItemCls(op', arg', tag)
                given == GivenElements(op', arg')
                tags  == \A e \in given : IsTag(e)
            IN  IF cls # "Tag" \/ op' = "list_init"
                    THEN raised' = "NbtInvalidOperation" /\ tag' = tag
                ELSE IF op' = "list_setitem"
                    THEN /\ raised' = IF tags THEN "IndexError" ELSE "NbtInvalidOperation"
                         /\ tag' = tag
                ELSE IF op' = "list_insert"
                    THEN IF tags
                         THEN raised' = "" /\ tag' = MkList(PyType(arg'[2]), <<arg'[2]>>)
                         ELSE raised' = "NbtInvalidOperation" /\ tag' = tag
                ELSE IF IsTag(arg'[3][1]) /\ \A e \in given : PyType(e) = PyType(arg'[3][1])
                         THEN raised' = "" /\ tag' = MkList(PyType(arg'[3][1]), arg'[3])
                         ELSE raised' = "NbtInvalidOperation" /\ tag' = tag]_vars

\* a list of two TagByte refused the insertion of a TagInt and kept its
\* elements
C6_Witness ==
    /\ op = "list_insert" /\ raised = "NbtInvalidOperation"
    /\ arg[2] = MkTag("TagInt", Big(1))
    /\ tag = MkList("TagByte", <<MkTag("TagByte", Big(1)), MkTag("TagByte", Big(2))>>)


(***************************************************************************)
(* TagCompound.  A Python dict object is <<"dict", entries>>.              *)
(***************************************************************************)
PyDict(d) == <<"dict", d>>

TagCompound_init_NoKeyCheck(mapping, old) ==
    IF mapping # None THEN
        IF \E i \in 1..Len(mapping[2]) : ~IsTag(mapping[2][i][2])
            THEN Raise("NbtInvalidOperation", old)
        ELSE Return(MkTag("TagCompound", mapping[2]))
    ELSE Return(MkTag("TagCompound", <<>>))

\* TagCompound.__init__(self, mapping); mapping is None or a dict
TagCompound_init(mapping, old) ==
    IF mapping # None THEN
        IF \E i \in 1..Len(mapping[2]) : ~IsTag(mapping[2][i][2])
            THEN Raise("NbtInvalidOperation", old)
        ELSE IF \E i \in 1..Len(mapping[2]) : ~isinstance_str(mapping[2][i][1])
            THEN Raise("NbtInvalidOperation", old)
        ELSE Return(MkTag("TagCompound", mapping[2]))
    ELSE Return(MkTag("TagCompound", <<>>))

\* TagCompound.__setitem__(self, key, tag)
TagCompound_setitem(self, key, t) ==
    IF ~isinstance_str(key) THEN Raise("NbtInvalidOperation", self)
    ELSE IF ~IsTag(t) THEN Raise("NbtInvalidOperation", self)
    ELSE Return(MkTag("TagCompound", DictSet(Value(self), key, t)))

\* TagCompound.__delitem__(self, key)
TagCompound_delitem(self, key) ==
    IF ~DictHas(Value(self), key) THEN Raise("KeyError", self)
    ELSE Return(MkTag("TagCompound", DictDel(Value(self), key)))

\* TagCompound.__iter__(self): the keys in the order iteration yields them
TagCompound_iter(self) == DictKeys(Value(self))

(***************************************************************************)
(* TagCompound as a state machine: the program builds a compound, sets and *)
(* deletes entries, writes it to a stream and reads it back.               *)
(***************************************************************************)
CompoundKeys ==
    {PyStr(Text(<<"a">>)), PyStr(Text(<<"b">>)), PyStr(Text(<<"c">>)), PyInt(Big(1))}

CompoundValues == {MkTag("TagByte", Big(1)), MkTag("TagInt", Big(2)), PyInt(Big(5))}

\* the dicts of up to two entries
CompoundMappings ==
    {<<>>} \cup {<<<<k, v>>>> : k \in CompoundKeys, v \in CompoundValues}
    \cup {d \in {<<<<k1, v1>>, <<k2, v2>>>> :
                    k1 \in CompoundKeys, k2 \in CompoundKeys,
                    v1 \in CompoundValues, v2 \in CompoundValues} :
            d[1][1] # d[2][1]}

IsCompound(t) == t # None /\ Cls(t) = "TagCompound"

CompoundInit ==
    /\ tag = None /\ op = "start" /\ arg = None /\ raised = "" /\ ret = None
    /\ file = <<>>

\* the outcome r of a method of the compound in tag
CompoundStep(name, args, r) ==
    /\ tag' = r.val /\ raised' = r.raised /\ ret' = None
    /\ op' = name /\ arg' = args
    /\ UNCHANGED file

\* tag = TagCompound(mapping)
CompoundConstruct(mapping) ==
    /\ op = "start"
    /\ CompoundStep("compound_init", <<mapping>>, TagCompound_init(mapping, None))

\* tag[key] = t
CompoundSetItem(key, t) ==
    /\ IsCompound(tag)
    /\ CompoundStep("compound_setitem", <<key, t>>, TagCompound_setitem(tag, key, t))

\* del tag[key]
CompoundDelItem(key) ==
    /\ IsCompound(tag)
    /\ CompoundStep("compound_delitem", <<key>>, TagCompound_delitem(tag, key))

\* tag.write(stream) on an empty stream
CompoundWrite ==
    /\ IsCompound(tag)
    /\ LET w == TagCompound_write(tag)
       IN  raised' = w.raised /\ file' = w.out
    /\ op' = "compound_write" /\ arg' = None /\ ret' = None
    /\ UNCHANGED tag

\* tag = TagCompound.read(stream) on the stream written last
CompoundRead ==
    /\ op = "compound_write" /\ raised = ""
    /\ LET r == TagCompound_read(file)
       IN  /\ raised' = r.raised
           /\ tag' = IF r.raised = "" THEN r.val ELSE tag
           /\ ret' = IF r.raised = "" THEN r.val ELSE None
    /\ op' = "compound_read" /\ arg' = None
    /\ UNCHANGED file

CompoundNext ==
    \/ \E mapping \in {PyDict(d) : d \in CompoundMappings} \cup {None} :
           CompoundConstruct(mapping)
    \/ \E key \in CompoundKeys, t \in CompoundValues : CompoundSetItem(key, t)
    \/ \E key \in CompoundKeys : CompoundDelItem(key)
    \/ CompoundWrite
    \/ CompoundRead

SpecCompound == CompoundInit /\ [][CompoundNext]_vars

\* the mapping has a key that is no string or a value that is no tag
BadMapping(mapping) ==
    /\ mapping # None
    /\ \E i \in 1..Len(mapping[2]) :
           PyType(mapping[2][i][1]) # "str" \/ ~(PyType(mapping[2][i][2]) \in TagClasses)

(* C7: TagCompound(m) with a non-string key or a non-Tag value raises
   NbtInvalidOperation; compound[k] = v with a non-string k or a non-Tag v
   raises NbtInvalidOperation and leaves the compound's keys and values
   unchanged; after any sequence of operations every key of a compound is a
   string and every value is a Tag. *)
C7_CompoundTyping ==
    /\ [](IsCompound(tag) =>
            \A i \in 1..Len(Value(tag)) :
                /\ PyType(Value(tag)[i][1]) = "str"
                /\ PyType(Value(tag)[i][2]) \in TagClasses)
    /\ [][/\ (op' = "compound_init" /\ BadMapping(arg'[1]))
               => raised' = "NbtInvalidOperation" /\ tag' = tag /\ ~IsCompound(tag')
          /\ (op' = "compound_setitem"
                /\ (PyType(arg'[1]) # "str" \/ ~(PyType(arg'[2]) \in TagClasses)))
               => raised' = "NbtInvalidOperation" /\ tag' = tag]_vars

\* a compound of two entries refused an integer key and kept its entries
C7_Witness ==
    /\ op = "compound_setitem" /\ raised = "NbtInvalidOperation"
    /\ arg = <<PyInt(Big(1)), MkTag("TagByte", Big(1))>>
    /\ IsCompound(tag) /\ Len(Value(tag)) = 2


\* the bytes of one entry of a compound: kind id, name, payload
EntryBytes(entry) ==
    <<tagid(Cls(entry[2]))>> \o compound_write_name(entry[1]).out \o Tag_write(entry[2]).out

\* s without the element x
Without(s, x) ==
    LET Keep(y) == y # x
    IN  SelectSeq(s, Keep)

(* C8: iterating a TagCompound yields its keys in insertion order: a
   successful assignment to an existing key keeps the order, one to a new key
   (a deleted one included) puts the key last, a deletion removes the key and
   keeps the order of the others, and decoding what write emitted yields the
   order written; TagCompound.write emits the entries in iteration order
   followed by a single End byte. *)
C8_CompoundOrdering ==
    [][/\ (op' = "compound_setitem" /\ raised' = "")
            => TagCompound_iter(tag') =
                   IF \E i \in 1..Len(TagCompound_iter(tag)) :
                          TagCompound_iter(tag)[i] = arg'[1]
                   THEN TagCompound_iter(tag)
                   ELSE Append(TagCompound_iter(tag), arg'[1])
       /\ (op' = "compound_delitem" /\ raised' = "")
            => TagCompound_iter(tag') = Without(TagCompound_iter(tag), arg'[1])
       /\ (op' = "compound_read")
            => raised' = "" /\ TagCompound_iter(tag') = TagCompound_iter(tag)
       /\ (op' = "compound_write")
            => /\ raised' = ""
               /\ file' = Flatten([i \in 1..Len(Value(tag)) |-> EntryBytes(Value(tag)[i])])
                              \o <<0>>]_vars

\* a compound whose key "a" was set after "b" wrote b's entry, then a's, then
\* one End byte
C8_Witness ==
    /\ op = "compound_write"
    /\ IsCompound(tag)
    /\ TagCompound_iter(tag) = <<PyStr(Text(<<"b">>)), PyStr(Text(<<"a">>))>>
    /\ file = <<1, 0, 1, 98, 1, 3, 0, 1, 97, 0, 0, 0, 2, 0>>


(***************************************************************************)
(* Equality of tags.  The operands are two distinct objects that share no  *)
(* part, as two tags built or decoded separately are.                      *)
(***************************************************************************)
RECURSIVE Tag_eq(_, _)

\* list.__eq__ over the elements' __eq__
list_eq(a, b) == Len(a) = Len(b) /\ \A i \in 1..Len(a) : Tag_eq(a[i], b[i])

\* dict.__eq__: the same keys, and per key values that are ==
dict_eq(a, b) ==
    /\ Len(a) = Len(b)
    /\ \A i \in 1..Len(a) : DictHas(b, a[i][1]) /\ Tag_eq(a[i][2], DictGet(b, a[i][1]))

\* self._value == other._value of two tags of one class
value_eq(cls, x, y) ==
    CASE cls \in FloatClasses -> FloatEq(x, y)
      [] cls = "TagCompound" -> dict_eq(x, y)
      [] OTHER -> x = y

\* TagList.__eq__(self, other)
TagList_eq(self, other) ==
    IF PyType(other) # "TagList" THEN FALSE
    ELSE ItemCls(self) = ItemCls(other) /\ list_eq(self[3], other[3])

\* self == other: Tag.__eq__, which TagList overrides
Tag_eq(self, other) ==
    IF Cls(self) = "TagList" THEN TagList_eq(self, other)
    ELSE IF Cls(self) # PyType(other) THEN FALSE
    ELSE value_eq(Cls(self), Value(self), Value(other))

(***************************************************************************)
(* Equality as a state machine: the program holds two tags (tag and arg)   *)
(* and compares them.                                                      *)
(***************************************************************************)
EqByte1 == MkTag("TagByte", Big(1))
EqInt1 == MkTag("TagInt", Big(1))
EqKeyA == PyStr(Text(<<"a">>))
EqKeyB == PyStr(Text(<<"b">>))

EqSamples ==
    {EqByte1, EqInt1, MkTag("TagLong", Big(1)), MkTag("TagInt", Big(2)),
     MkTag("TagDouble", Dec(FALSE, <<>>, 0)), MkTag("TagDouble", Dec(TRUE, <<>>, 0)),
     MkTag("TagDouble", Dec(FALSE, <<1, 5>>, -1)), MkTag("TagDouble", NaN),
     MkTag("TagFloat", Dec(FALSE, <<1, 5>>, -1)), MkTag("TagFloat", NaN),
     MkTag("TagString", Text(<<"a">>)), MkTag("TagString", <<>>),
     MkTag("TagByteArray", <<Big(1)>>), MkTag("TagIntArray", <<Big(1)>>),
     MkTag("TagIntArray", <<>>),
     MkList("TagByte", <<>>), MkList("TagInt", <<>>), MkList("Tag", <<>>),
     MkList("TagByte", <<EqByte1>>), MkList("TagInt", <<EqInt1>>),
     MkList("TagInt", <<EqInt1, MkTag("TagInt", Big(2))>>),
     MkList("TagInt", <<MkTag("TagInt", Big(2)), EqInt1>>),
     MkTag("TagCompound", <<>>),
     MkTag("TagCompound", <<<<EqKeyA, EqByte1>>, <<EqKeyB, EqInt1>>>>),
     MkTag("TagCompound", <<<<EqKeyB, EqInt1>>, <<EqKeyA, EqByte1>>>>),
     MkTag("TagCompound", <<<<EqKeyA, EqByte1>>, <<EqKeyB, EqByte1>>>>),
     MkTag("TagCompound", <<<<EqKeyA, EqByte1>>>>),
     MkTag("TagCompound", <<<<EqKeyA, MkList("TagByte", <<>>)>>>>),
     MkTag("TagCompound", <<<<EqKeyA, MkList("TagInt", <<>>)>>>>)}

EqInit ==
    /\ tag \in EqSamples /\ arg \in EqSamples
    /\ op = "start" /\ raised = "" /\ ret = None /\ file = <<>>

\* tag == arg
Compare ==
    /\ op = "start"
    /\ ret' = PyBool(Tag_eq(tag, arg))
    /\ op' = "eq" /\ raised' = ""
    /\ UNCHANGED <<tag, arg, file>>

\* tag != arg: object.__ne__ inverts __eq__
CompareNot ==
    /\ op = "start"
    /\ ret' = PyBool(~Tag_eq(tag, arg))
    /\ op' = "ne" /\ raised' = ""
    /\ UNCHANGED <<tag, arg, file>>

EqNext == Compare \/ CompareNot

SpecEq == EqInit /\ [][EqNext]_vars

RECURSIVE Identical(_, _)
\* identical kind and identical payload: a list's element kind and element
\* sequence, a compound's key set with an identical value per key
Identical(a, b) ==
    /\ Cls(a) = Cls(b)
    /\ CASE Cls(a) = "TagList" ->
                /\ ItemCls(a) = ItemCls(b) /\ Len(a[3]) = Len(b[3])
                /\ \A i \in 1..Len(a[3]) : Identical(a[3][i], b[3][i])
         [] Cls(a) = "TagCompound" ->
                /\ {Value(a)[i][1] : i \in 1..Len(Value(a))}
                       = {Value(b)[i][1] : i \in 1..Len(Value(b))}
                /\ \A i \in 1..Len(Value(a)), j \in 1..Len(Value(b)) :
                       Value(a)[i][1] = Value(b)[j][1]
                           => Identical(Value(a)[i][2], Value(b)[j][2])
         [] OTHER -> Value(a) = Value(b)

(* C9: two tags are equal if and only if they have the identical kind and
   identical payload, a list's payload being its element kind plus its
   element sequence and a compound's its key set with an equal value per
   key, independent of insertion order. *)
C9_TagEquality ==
    /\ op = "eq" => (ret = PyBool(Identical(tag, arg)))
    /\ op = "ne" => (ret = PyBool(~Identical(tag, arg)))


(***************************************************************************)
(* Array tags: construction.                                               *)
(***************************************************************************)
\* array(self._itype, numbers) takes ints of the item width only
fits(v, bits) == BigLe(BigNeg(Pow2(bits - 1)), v) /\ BigLt(v, Pow2(bits - 1))

\* what storing v as an item of array(self._itype) raises, "" if nothing
array_item_error(cls, v) ==
    IF ~isinstance_int(v) THEN "TypeError"
    ELSE IF ~fits(int(v), 8 * itemsize(cls)) THEN "OverflowError"
    ELSE ""

\* _TagNumberArray.__init__(self, numbers); numbers is None or a list, whose
\* items array() takes in order
TagNumberArray_init(cls, numbers, old) ==
    IF numbers = None THEN Return(<<>>)
    ELSE LET bad == {i \in 1..Len(numbers[2]) : array_item_error(cls, numbers[2][i]) # ""}
         IN  IF bad # {}
             THEN Raise(array_item_error(cls, numbers[2][CHOOSE i \in bad : \A j \in bad : i <= j]),
                        old)
             ELSE Return([i \in 1..Len(numbers[2]) |-> int(numbers[2][i])])

\* _TagNumberArray.__setitem__(self, index, value) for an int index; a is
\* self._value
TagNumberArray_setitem(cls, a, index, value) ==
    LET i == IF index < 0 THEN index + Len(a) ELSE index
    IN  IF i < 0 \/ i >= Len(a) THEN Raise("IndexError", a)
        ELSE IF array_item_error(cls, value) # "" THEN Raise(array_item_error(cls, value), a)
        ELSE Return([a EXCEPT ![i + 1] = int(value)])

\* _TagNumberArray.insert(self, index, value) for an int index
TagNumberArray_insert(cls, a, index, value) ==
    LET i == IF index < 0 THEN Max(index + Len(a), 0) ELSE Min(index, Len(a))
    IN  IF array_item_error(cls, value) # "" THEN Raise(array_item_error(cls, value), a)
        ELSE Return(SubSeq(a, 1, i) \o <<int(value)>> \o SubSeq(a, i + 1, Len(a)))

(***************************************************************************)
(* The codec as a state machine: the program builds a tag with the         *)
(* constructors, writes it to a file, and reads a file (what was written,  *)
(* or that with one place damaged) and saves what it read under the name   *)
(* it read.                                                                *)
(***************************************************************************)
\* how deep the built tags nest containers
MaxDepth == 2

\* the longest written file whose bytes get damaged
MaxDamagedLen == 14

B32(b) == PyFloat(<<"b32", b>>)
B64(b) == PyFloat(<<"b64", b>>)

\* the constructor calls that build the leaves: <<cls, argument>>
BinLeafCalls ==
    {<<"TagByte", PyInt(Big(0))>>, <<"TagByte", PyInt(Big(255))>>,
     <<"TagShort", PyInt(Big(258))>>, <<"TagInt", PyInt(Big(-2))>>,
     <<"TagLong", PyInt(Pow2(40))>>,
     <<"TagFloat", B32(<<127, 128, 0, 0>>)>>, <<"TagFloat", B32(<<127, 192, 0, 0>>)>>,
     <<"TagDouble", B64(<<191, 240, 0, 0, 0, 0, 0, 0>>)>>,
     <<"TagDouble", B64(<<127, 248, 0, 0, 0, 0, 0, 0>>)>>,
     <<"TagString", PyStr(<<>>)>>, <<"TagString", PyStr(<<233, 65>>)>>,
     <<"TagByteArray", None>>,
     <<"TagByteArray", PyList(<<PyInt(Big(1)), PyInt(Big(-2))>>)>>,
     <<"TagIntArray", PyList(<<PyInt(Big(258))>>)>>,
     <<"TagLongArray", None>>,
     <<"TagLongArray", PyList(<<PyInt(Big(-1))>>)>>,
     <<"TagList", "Tag">>}

BinNames == {PyStr(<<>>), PyStr(<<110>>)}

BinKeys == {PyStr(<<107>>), PyStr(<<1>>)}

\* the bytes that damage puts into a file
DamageBytes == {0, 1, 128, 255}

RECURSIVE Depth(_)
\* how deep t nests containers
Depth(t) ==
    CASE Cls(t) = "TagList" ->
            1 + (IF t[3] = <<>> THEN 0 ELSE Depth(t[3][1]))
      [] Cls(t) = "TagCompound" ->
            1 + (IF Value(t) = <<>> THEN 0
                 ELSE Max(Depth(Value(t)[1][2]), Depth(Value(t)[Len(Value(t))][2])))
      [] OTHER -> 0

BinInit ==
    /\ tag = None /\ op = "start" /\ arg = None /\ raised = "" /\ ret = None
    /\ file = <<>>

\* tag = cls(value) for a scalar or an array class, tag = TagList(value) for
\* the class TagList
BinBuild(cls, value) ==
    /\ op = "start"
    /\ LET r == CASE cls \in ArrayClasses -> TagNumberArray_init(cls, value, None)
                  [] cls = "TagList" -> TagList_init(value, None, None)
                  [] OTHER -> Scalar_init(cls, value, None)
       IN  /\ raised' = r.raised
           /\ tag' = CASE r.raised # "" -> tag
                       [] cls = "TagList" -> r.val
                       [] OTHER -> MkTag(cls, r.val)
    /\ op' = "build" /\ arg' = <<cls, value>> /\ ret' = None
    /\ UNCHANGED file

\* tag = TagList(type(tag), [tag] * n)
BinWrapList(n) ==
    /\ op = "build" /\ raised = "" /\ Depth(tag) < MaxDepth
    /\ LET r == TagList_init(Cls(tag), PyList([i \in 1..n |-> tag]), None)
       IN  raised' = r.raised /\ tag' = r.val
    /\ op' = "build" /\ arg' = <<"TagList", n>> /\ ret' = None
    /\ UNCHANGED file

\* tag = TagCompound({key: tag})
BinWrapCompound(key) ==
    /\ op = "build" /\ raised = "" /\ Depth(tag) < MaxDepth
    /\ LET r == TagCompound_init(PyDict(<<<<key, tag>>>>), None)
       IN  raised' = r.raised /\ tag' = r.val
    /\ op' = "build" /\ arg' = <<"TagCompound", key>> /\ ret' = None
    /\ UNCHANGED file

\* tag[key] = TagByte(1) on a compound of one entry
BinAddEntry(key) ==
    /\ op = "build" /\ raised = "" /\ IsCompound(tag) /\ Len(Value(tag)) = 1
    /\ LET r == TagCompound_setitem(tag, key, MkTag("TagByte", Big(1)))
       IN  raised' = r.raised /\ tag' = r.val
    /\ op' = "build" /\ arg' = <<"setitem", key>> /\ ret' = None
    /\ UNCHANGED file

\* write_nbt_file(file, tag, root_name=root_name, compress=False)
BinWrite(root_name) ==
    /\ op = "build" /\ raised = ""
    /\ LET w == write_nbt_file(tag, root_name)
       IN  raised' = w.raised /\ file' = w.out
    /\ op' = "write" /\ arg' = root_name /\ ret' = None
    /\ UNCHANGED tag

\* the file loses its last byte
BinTruncate ==
    /\ op = "write" /\ raised = "" /\ Len(file) <= MaxDamagedLen
    /\ file' = SubSeq(file, 1, Len(file) - 1)
    /\ op' = "damage" /\ arg' = <<"truncate">>
    /\ UNCHANGED <<tag, raised, ret>>

\* the file gets one more byte
BinAppend(b) ==
    /\ op = "write" /\ raised = "" /\ Len(file) <= MaxDamagedLen
    /\ file' = Append(file, b)
    /\ op' = "damage" /\ arg' = <<"append", b>>
    /\ UNCHANGED <<tag, raised, ret>>

\* one byte of the file is overwritten
BinOverwrite(i, b) ==
    /\ op = "write" /\ raised = "" /\ Len(file) <= MaxDamagedLen
    /\ i \in 1..Len(file) /\ file[i] # b
    /\ file' = [file EXCEPT ![i] = b]
    /\ op' = "damage" /\ arg' = <<"overwrite", i, b>>
    /\ UNCHANGED <<tag, raised, ret>>

\* tag, name = read_nbt_file(file, with_name=True), the file being no gzip
\* file; arg tells what the reader left unread
BinRead ==
    /\ op \in {"write", "damage"} /\ raised = ""
    /\ ~(Len(file) >= 2 /\ SubSeq(file, 1, 2) = GzipMagic)
    /\ LET r == read_nbt_file(file)
       IN  /\ raised' = r.raised
           /\ tag' = IF r.raised = "" THEN r.val[1] ELSE tag
           /\ ret' = IF r.raised = "" THEN r.val[2] ELSE None
           /\ arg' = <<"unread", r.rest>>
    /\ op' = "read"
    /\ UNCHANGED file

\* write_nbt_file(file, tag, root_name=name, compress=False) with what the
\* read returned
BinResave ==
    /\ op = "read" /\ raised = ""
    /\ LET w == write_nbt_file(tag, ret)
       IN  raised' = w.raised /\ file' = w.out
    /\ op' = "resave" /\ arg' = ret
    /\ UNCHANGED <<tag, ret>>

BinNext ==
    \/ \E call \in BinLeafCalls : BinBuild(call[1], call[2])
    \/ \E n \in 0..2 : BinWrapList(n)
    \/ \E key \in BinKeys : BinWrapCompound(key)
    \/ \E key \in BinKeys : BinAddEntry(key)
    \/ \E root_name \in BinNames : BinWrite(root_name)
    \/ BinTruncate
    \/ \E b \in DamageBytes : BinAppend(b)
    \/ \E i \in 1..MaxDamagedLen, b \in DamageBytes : BinOverwrite(i, b)
    \/ BinRead
    \/ BinResave

SpecBin == BinInit /\ [][BinNext]_vars


(***************************************************************************)
(* Canonical streams: the byte sequences of the NBT format in which every  *)
(* count and length prefix is non-negative as a signed integer and is      *)
(* followed by exactly that many elements or bytes, strings are well-      *)
(* formed UTF-8, a list of element kind 0 has count 0, no compound names   *)
(* an entry twice, no Float payload is a signalling NaN, and nothing       *)
(* follows the root.  A recogniser returns [ok, rest].                     *)
(***************************************************************************)
Reject == [ok |-> FALSE, rest |-> <<>>]
Accept(s) == [ok |-> TRUE, rest |-> s]

\* s without its first n bytes, if it has that many
Skip(s, n) == IF Len(s) < n THEN Reject ELSE Accept(SubSeq(s, n + 1, Len(s)))

Unsigned16(s) == s[1] * 256 + s[2]

\* the count of four bytes if its sign bit is clear, else -1
Count32(s) == IF s[1] >= 128 THEN -1 ELSE ((s[1] * 256 + s[2]) * 256 + s[3]) * 256 + s[4]

\* a binary32 NaN whose quiet bit is clear
SignallingBits32(b) == IsNaNBits32(b) /\ (b[2] \div 64) % 2 = 0

\* a length-prefixed string at the start of s
CanonString(s) ==
    IF Len(s) < 2 \/ s[1] >= 128 \/ Len(s) - 2 < Unsigned16(s) THEN Reject
    ELSE IF Utf8Decode(SubSeq(s, 3, 2 + Unsigned16(s))).raised # "" THEN Reject
    ELSE Accept(SubSeq(s, 3 + Unsigned16(s), Len(s)))

\* the name of the string that CanonString accepts at the start of s
CanonName(s) == SubSeq(s, 3, 2 + Unsigned16(s))

RECURSIVE CanonPayload(_, _)
RECURSIVE CanonItems(_, _, _)
RECURSIVE CanonEntries(_, _)

\* n payloads of kind id
CanonItems(id, s, n) ==
    IF n = 0 THEN Accept(s)
    ELSE Bind(CanonPayload(id, s), LAMBDA r :
             IF ~r.ok THEN Reject ELSE CanonItems(id, r.rest, n - 1))

\* the entries of a compound up to its End byte, seen being the names so far
CanonEntries(s, seen) ==
    IF s = <<>> THEN Reject
    ELSE IF s[1] = 0 THEN Accept(Tail(s))
    ELSE IF ~(s[1] \in 1..12) THEN Reject
    ELSE Bind(CanonString(Tail(s)), LAMBDA name :
        IF ~name.ok \/ CanonName(Tail(s)) \in seen THEN Reject
        ELSE Bind(CanonPayload(s[1], name.rest), LAMBDA r :
                 IF ~r.ok THEN Reject
                 ELSE CanonEntries(r.rest, seen \cup {CanonName(Tail(s))})))

\* the payload of kind id at the start of s
CanonPayload(id, s) ==
    CASE id \in 1..4 -> Skip(s, Pow(2, id - 1))
      [] id = 5 -> IF Len(s) >= 4 /\ SignallingBits32(s) THEN Reject ELSE Skip(s, 4)
      [] id = 6 -> Skip(s, 8)
      [] id \in {7, 11, 12} ->
            LET size == IF id = 7 THEN 1 ELSE IF id = 11 THEN 4 ELSE 8
            IN  IF Len(s) < 4 \/ Count32(s) < 0 \/ (Len(s) - 4) \div size < Count32(s)
                    THEN Reject
                ELSE Skip(s, 4 + Count32(s) * size)
      [] id = 8 -> CanonString(s)
      [] id = 9 ->
            IF Len(s) < 5 \/ ~(s[1] \in 0..12) \/ Count32(Tail(s)) < 0 THEN Reject
            ELSE IF s[1] = 0 /\ Count32(Tail(s)) # 0 THEN Reject
            ELSE CanonItems(s[1], SubSeq(s, 6, Len(s)), Count32(Tail(s)))
      [] id = 10 -> CanonEntries(s, {})

\* B is a canonical uncompressed NBT file
Canonical(B) ==
    /\ B # <<>> /\ B[1] \in 1..12
    /\ CanonString(Tail(B)).ok
    /\ CanonPayload(B[1], CanonString(Tail(B)).rest) = Accept(<<>>)

\* C1 as stated: every file that read_nbt_file decodes is saved back
\* byte for byte
C1_AsStated == [][op' = "resave" => (raised' = "" /\ file' = file)]_vars

(* C1: for every canonical byte sequence B (every count and length prefix
   non-negative as a signed integer and followed by exactly that many
   elements or bytes, no name twice in a compound, no signalling-NaN Float
   payload, nothing after the root), read_nbt_file (uncompressed,
   with_name=True) decodes B into (tag, name) and write_nbt_file(tag,
   root_name=name, compress=False) produces B again. *)
C1_ExactResave ==
    [][/\ (op' = "read" /\ Canonical(file)) => raised' = ""
       /\ (op' = "resave" /\ Canonical(file)) => (raised' = "" /\ file' = file)]_vars


\* the canonical file of a compound of two entries was read and saved again
C1_Witness ==
    /\ op = "resave" /\ raised = "" /\ Canonical(file)
    /\ file = <<10, 0, 0, 1, 0, 1, 1, 0, 1, 0, 1, 107, 1, 0>>

(* C2: for every tag T built with the public constructors and every root
   name n, write_nbt_file(T, root_name=n, compress=False) followed by
   read_nbt_file(with_name=True) on the written bytes returns (T2, n2) with
   T2 == T and n2 == n, and the reader consumes all written bytes. *)
C2_SaveLoad ==
    [][(op = "write" /\ op' = "read") =>
          /\ raised' = ""
          /\ Tag_eq(tag', tag)
          /\ ret' = arg
          /\ arg' = <<"unread", <<>>>>]_vars


(***************************************************************************)
(* SNBT (src/uNBT/snbt.py).  A text is a str: a sequence of code points.   *)
(***************************************************************************)
\* the characters str.isspace, str.lstrip and the pattern \s take as space
Whitespace ==
    {9, 10, 11, 12, 13, 28, 29, 30, 31, 32, 133, 160, 5760, 8232, 8233, 8239,
     8287, 12288} \cup (8192..8202)

\* how many leading characters of s are in the set cs
PrefixLen(s, cs) ==
    CHOOSE k \in 0..Len(s) :
        /\ k = Len(s) \/ s[k + 1] \notin cs
        /\ \A i \in 1..k : s[i] \in cs

\* s[n:]
From(s, n) == SubSeq(s, n + 1, Len(s))

\* s.lstrip()
lstrip(s) == From(s, PrefixLen(s, Whitespace))

\* s.isspace()
isspace(s) == s # <<>> /\ \A i \in 1..Len(s) : s[i] \in Whitespace

\* the characters of the class [0-9]
Digits == {Ord(c) : c \in {"0", "1", "2", "3", "4", "5", "6", "7", "8", "9"}}

\* the characters of the class [0-9a-zA-Z.+_-]
UnquotedChars ==
    {n \in 33..126 :
        \/ n \in Digits
        \/ n >= Ord("a") /\ n <= Ord("z")
        \/ n >= Ord("A") /\ n <= Ord("Z")
        \/ n \in {Ord("."), Ord("+"), Ord("_"), Ord("-")}}

\* s.replace(old, new) for a non-empty old
RECURSIVE str_replace(_, _, _)
str_replace(s, old, new) ==
    IF Len(s) < Len(old) THEN s
    ELSE IF SubSeq(s, 1, Len(old)) = old
        THEN new \o str_replace(From(s, Len(old)), old, new)
    ELSE <<s[1]>> \o str_replace(Tail(s), old, new)

\* sep.join(parts)
RECURSIVE join(_, _)
join(sep, parts) ==
    IF parts = <<>> THEN <<>>
    ELSE IF Len(parts) = 1 THEN parts[1]
    ELSE parts[1] \o sep \o join(sep, Tail(parts))

\* str(n) of a non-negative int with magnitude m, "" for 0
RECURSIVE MagStr(_)
MagStr(m) ==
    IF m = <<>> THEN <<>>
    ELSE MagStr(MagDivSmall(m, 10)) \o <<Ord("0") + MagRemSmall(m, 10)>>

\* '{}'.format(n) of an int
int_format(n) ==
    IF n.mag = <<>> THEN Text(<<"0">>)
    ELSE (IF n.neg THEN Text(<<"-">>) ELSE <<>>) \o MagStr(n.mag)

\* the decimal digits ds as characters
DigitChars(ds) == [i \in 1..Len(ds) |-> Ord("0") + ds[i]]

\* '{}'.format(x) of a float: repr(x), the shortest decimal that reads back
\* as x.  It is the decimal itself for one of at most 15 digits; the floats
\* of the states are such decimals, or NaN.
float_format(x) ==
    CASE x[1] = "nan" -> Text(<<"n", "a", "n">>)
      [] x[1] = "dec" /\ Len(x[3]) <= 15 ->
            LET ds    == x[3]
                n     == Len(ds)
                decpt == n + x[4]
                sign  == IF x[2] THEN Text(<<"-">>) ELSE <<>>
                e     == decpt - 1
                ee    == IF e < 0 THEN -e ELSE e
            IN  IF n = 0 THEN sign \o Text(<<"0", ".", "0">>)
                ELSE IF decpt <= -4 \/ decpt > 16 THEN
                    sign \o DigitChars(SubSeq(ds, 1, 1))
                    \o (IF n > 1 THEN Text(<<".">>) \o DigitChars(Tail(ds)) ELSE <<>>)
                    \o Text(<<"e">>) \o Text(IF e < 0 THEN <<"-">> ELSE <<"+">>)
                    \o (IF ee < 10 THEN Text(<<"0">>) ELSE <<>>)
                    \o MagStr(MagOf(ee))
                ELSE IF decpt <= 0 THEN
                    sign \o Text(<<"0", ".">>) \o DigitChars(Zeros(-decpt)) \o DigitChars(ds)
                ELSE IF decpt >= n THEN
                    sign \o DigitChars(ds) \o DigitChars(Zeros(decpt - n))
                    \o Text(<<".", "0">>)
                ELSE sign \o DigitChars(SubSeq(ds, 1, decpt)) \o Text(<<".">>)
                     \o DigitChars(From(ds, decpt))

\* _quote_string(s)
quote_string(s) ==
    Text(<<"\"">>)
    \o str_replace(
         str_replace(
           str_replace(s, Text(<<"\"">>), Text(<<"\\", "\"">>)),
           Text(<<"'">>), Text(<<"\\", "'">>)),
         Text(<<"\\">>), Text(<<"\\", "\\">>))
    \o Text(<<"\"">>)

\* re.match(r'^[0-9a-zA-Z.+_-]+$', s): $ matches at the end and before a
\* newline that ends s
MatchesUnquoted(s) ==
    LET n == PrefixLen(s, UnquotedChars)
    IN  n > 0 /\ (n = Len(s) \/ (n = Len(s) - 1 /\ s[Len(s)] = 10))

\* _quote_compound_key(s)
quote_compound_key(s) == IF MatchesUnquoted(s) THEN s ELSE quote_string(s)

\* a < b of two str
StrLt(a, b) ==
    \E i \in 1..(Min(Len(a), Len(b)) + 1) :
        /\ \A j \in 1..(i - 1) : a[j] = b[j]
        /\ IF i > Len(a) THEN i <= Len(b) ELSE i <= Len(b) /\ a[i] < b[i]

\* sorted(keys) of the keys of a dict, which differ from each other
sorted(keys) ==
    [i \in 1..Len(keys) |->
        CHOOSE k \in {keys[j] : j \in 1..Len(keys)} :
            Cardinality({j \in 1..Len(keys) : StrLt(keys[j][2], k[2])}) = i - 1]

\* to_snbt(tag, sort=sort); the calls for the elements of a list and the
\* values of a compound pass no sort
RECURSIVE to_snbt(_, _)
to_snbt(t, sort) ==
    CASE Cls(t) = "TagByte" -> int_format(Value(t)) \o Text(<<"b">>)
      [] Cls(t) = "TagShort" -> int_format(Value(t)) \o Text(<<"s">>)
      [] Cls(t) = "TagInt" -> int_format(Value(t))
      [] Cls(t) = "TagLong" -> int_format(Value(t)) \o Text(<<"l">>)
      [] Cls(t) = "TagFloat" -> float_format(Value(t)) \o Text(<<"f">>)
      [] Cls(t) = "TagDouble" -> float_format(Value(t)) \o Text(<<"d">>)
      [] Cls(t) = "TagByteArray" ->
            Text(<<"[", "B", ";">>)
            \o join(Text(<<",">>), [i \in 1..Len(Value(t)) |->
                                      int_format(Value(t)[i]) \o Text(<<"b">>)])
            \o Text(<<"]">>)
      [] Cls(t) = "TagIntArray" ->
            Text(<<"[", "I", ";">>)
            \o join(Text(<<",">>), [i \in 1..Len(Value(t)) |-> int_format(Value(t)[i])])
            \o Text(<<"]">>)
      [] Cls(t) = "TagLongArray" ->
            Text(<<"[", "L", ";">>)
            \o join(Text(<<",">>), [i \in 1..Len(Value(t)) |->
                                      int_format(Value(t)[i]) \o Text(<<"l">>)])
            \o Text(<<"]">>)
      [] Cls(t) = "TagString" -> quote_string(Value(t))
      [] Cls(t) = "TagList" ->
            Text(<<"[">>)
            \o join(Text(<<",">>), [i \in 1..Len(Value(t)) |-> to_snbt(Value(t)[i], FALSE)])
            \o Text(<<"]">>)
      [] Cls(t) = "TagCompound" ->
            LET keys == IF sort THEN sorted(TagCompound_iter(t)) ELSE TagCompound_iter(t)
            IN  Text(<<"{">>)
                \o join(Text(<<",">>),
                        [i \in 1..Len(keys) |->
                            quote_compound_key(keys[i][2]) \o Text(<<":">>)
                            \o to_snbt(DictGet(Value(t), keys[i]), FALSE)])
                \o Text(<<"}">>)


(***************************************************************************)
(* The SNBT parser.  A parse returns [raised, val, rest]: the exception it *)
(* raised, the value it read and the text it left.                         *)
(***************************************************************************)
\* _parse_unquoted_string(s)
parse_unquoted_string(s) ==
    LET n == PrefixLen(s, UnquotedChars)
    IN  IF n = 0 THEN Fail("ValueError", s)
        ELSE Done(SubSeq(s, 1, n), From(s, n))

\* the ends of the shortest match of r'(.*?[^\\](?:\\\\)*)' followed by
\* quote in c: the character at i is no backslash, none before it is a
\* newline, and an even run of backslashes and then the quote follow it
QuotedEnds(c, quote) ==
    {i \in 1..Len(c) :
        /\ c[i] # Ord("\\")
        /\ \A j \in 1..(i - 1) : c[j] # 10
        /\ LET r == PrefixLen(From(c, i), {Ord("\\")})
           IN  r % 2 = 0 /\ i + r + 1 <= Len(c) /\ c[i + r + 1] = quote}

\* _parse_quoted_string(s), for s that starts with a quote
parse_quoted_string(s) ==
    LET quote == s[1]
        c     == Tail(s)
    IN  IF Len(s) < 2 THEN Fail("IndexError", s)
        ELSE IF s[2] = quote THEN Done(<<>>, From(s, 2))
        ELSE IF QuotedEnds(c, quote) = {} THEN Fail("ValueError", s)
        ELSE LET i == CHOOSE k \in QuotedEnds(c, quote) :
                            \A l \in QuotedEnds(c, quote) : k <= l
                 n == i + PrefixLen(From(c, i), {Ord("\\")})
             IN  Done(str_replace(
                        str_replace(
                          str_replace(SubSeq(c, 1, n), Text(<<"\\", "\"">>), Text(<<"\"">>)),
                          Text(<<"\\", "'">>), Text(<<"'">>)),
                        Text(<<"\\", "\\">>), Text(<<"\\">>)),
                      From(c, n + 1))

\* int(s) of a text of decimal digits, taken six digits at a time
RECURSIVE int_of_digits(_)
int_of_digits(s) ==
    IF Len(s) <= 6 THEN Big(DigitsValue([i \in 1..Len(s) |-> s[i] - Ord("0")]))
    ELSE BigAdd(BigMulSmall(int_of_digits(SubSeq(s, 1, Len(s) - 6)), 1000000),
                Big(DigitsValue([i \in 1..6 |-> s[Len(s) - 6 + i] - Ord("0")])))

\* the length of the match of r'[+-]?(?:0|[1-9][0-9]*)' at the start of s,
\* 0 if there is none
IntegerMatchLen(s) ==
    LET sg == IF s # <<>> /\ s[1] \in {Ord("+"), Ord("-")} THEN 1 ELSE 0
        d  == From(s, sg)
    IN  IF d = <<>> \/ d[1] \notin Digits THEN 0
        ELSE IF d[1] = Ord("0") THEN sg + 1
        ELSE sg + PrefixLen(d, Digits)

\* the default of sys.int_max_str_digits: int() refuses a text of more digits
IntMaxStrDigits == 4300

\* the longest text of digits whose int is worked out
MaxIntDigits == 40

\* int(g) for a text g that matches r'[+-]?(?:0|[1-9][0-9]*)', of at most
\* MaxIntDigits digits or of more than IntMaxStrDigits
int_of_text(g) ==
    LET ds == IF g[1] \in {Ord("+"), Ord("-")} THEN Tail(g) ELSE g
    IN  CASE Len(ds) > IntMaxStrDigits -> Raise("ValueError", None)
          [] Len(ds) <= MaxIntDigits ->
                Return(IF g[1] = Ord("-") THEN BigNeg(int_of_digits(ds))
                       ELSE int_of_digits(ds))

try_parse_integer_NoSuffix(s) ==
    LET n == IntegerMatchLen(s)
    IN  IF n = 0 THEN Done(None, s)
        ELSE Bind(int_of_text(SubSeq(s, 1, n)), LAMBDA v :
            IF v.raised # "" THEN Fail(v.raised, s)
            ELSE Done(<<v.val, "i">>, From(s, n)))

\* _try_parse_integer(s): val is None, or <<value, vtype>>; int() may raise
try_parse_integer(s) ==
    LET n == IntegerMatchLen(s)
    IN  IF n = 0 THEN Done(None, s)
        ELSE Bind(int_of_text(SubSeq(s, 1, n)), LAMBDA v :
            IF v.raised # "" THEN Fail(v.raised, s)
            ELSE IF n < Len(s) /\ s[n + 1] = Ord("b")
                THEN Done(<<v.val, "b">>, From(s, n + 1))
            ELSE IF n < Len(s) /\ s[n + 1] = Ord("s")
                THEN Done(<<v.val, "s">>, From(s, n + 1))
            ELSE IF n < Len(s) /\ s[n + 1] = Ord("l")
                THEN Done(<<v.val, "l">>, From(s, n + 1))
            ELSE Done(<<v.val, "i">>, From(s, n)))

\* the parts of a text [-+]? mantissa (e exponent)?: <<sign, mantissa, has
\* exponent, exponent>>, the exponent part starting at the first e
FloatParts(b) ==
    LET sg == IF b # <<>> /\ b[1] \in {Ord("+"), Ord("-")} THEN 1 ELSE 0
        u  == From(b, sg)
        m  == PrefixLen(u, Digits \cup {Ord(".")})
    IN  <<SubSeq(b, 1, sg), SubSeq(u, 1, m), m < Len(u), From(u, m + 1)>>

\* b matches r'[-+]?(?:[0-9]+[.]?|[0-9]*[.][0-9]+)(?:e[-+]?[0-9]+)?' in
\* full; with dot, r'[-+]?(?:[0-9]+[.]|[0-9]*[.][0-9]+)(?:e[-+]?[0-9]+)?'
MatchesFloat(b, dot) ==
    LET p    == FloatParts(b)
        m    == p[2]
        dots == {i \in 1..Len(m) : m[i] = Ord(".")}
        x    == p[4]
        xs   == IF x # <<>> /\ x[1] \in {Ord("+"), Ord("-")} THEN 1 ELSE 0
    IN  /\ Cardinality(dots) <= 1
        /\ Len(m) > Cardinality(dots)
        /\ dot => dots # {}
        /\ p[3] => /\ b[Len(p[1]) + Len(m) + 1] = Ord("e")
                   /\ Len(x) > xs
                   /\ \A i \in (xs + 1)..Len(x) : x[i] \in Digits

\* the digits ds without the zeros that lead them
RECURSIVE StripLeft(_)
StripLeft(ds) == IF ds # <<>> /\ ds[1] = 0 THEN StripLeft(Tail(ds)) ELSE ds

\* the float of the decimal (-1)^neg * ds * 10^e
Decimal(neg, ds, e) ==
    LET l == StripLeft(ds)
        r == Reverse(StripLeft(Reverse(l)))
    IN  IF r = <<>> THEN Dec(neg, <<>>, 0)
        ELSE Dec(neg, r, e + (Len(l) - Len(r)))

\* float(b) for a text b that MatchesFloat, of a decimal within the range
\* of a double and of at most 15 digits, as the texts of the states are
float(b) ==
    LET p    == FloatParts(b)
        m    == p[2]
        ip   == PrefixLen(m, Digits)
        fr   == IF ip < Len(m) THEN From(m, ip + 1) ELSE <<>>
        ds   == [i \in 1..(ip + Len(fr)) |->
                    (IF i <= ip THEN m[i] ELSE fr[i - ip]) - Ord("0")]
        x    == p[4]
        xneg == x # <<>> /\ x[1] = Ord("-")
        xd   == IF x # <<>> /\ x[1] \in {Ord("+"), Ord("-")} THEN Tail(x) ELSE x
        xv   == DigitsValue([i \in 1..Len(xd) |-> xd[i] - Ord("0")])
    IN  CASE Len(xd) <= 2 /\ Len(ds) <= 15 ->
            Decimal(p[1] = Text(<<"-">>), ds, (IF xneg THEN -xv ELSE xv) - Len(fr))


\* the tag cls(...) of a constructor call that returned r, or its exception
Constructed(cls, r, rest) ==
    IF r.raised # "" THEN Fail(r.raised, rest)
    ELSE IF cls = "TagList" THEN Done(r.val, rest)
    ELSE IF cls = "TagCompound" THEN Done(r.val, rest)
    ELSE Done(MkTag(cls, r.val), rest)

\* the part of _parse_rec after _parse_unquoted_string: the chunk as a
\* float, an integer, true or false
parse_chunk(chunk, s) ==
    LET last == chunk[Len(chunk)]
        body == SubSeq(chunk, 1, Len(chunk) - 1)
    IN  IF last \in {Ord("f"), Ord("d")} /\ MatchesFloat(body, FALSE) THEN
            IF last = Ord("f")
            THEN Constructed("TagFloat", TagFloat_init(PyFloat(float(body)), None), s)
            ELSE Constructed("TagDouble", TagDouble_init(PyFloat(float(body)), None), s)
        ELSE IF MatchesFloat(chunk, TRUE) THEN
            Constructed("TagDouble", TagDouble_init(PyFloat(float(chunk)), None), s)
        ELSE Bind(try_parse_integer(chunk), LAMBDA m :
            IF m.raised # "" THEN Fail(m.raised, s)
            ELSE IF m.val # None THEN
                LET cls == CASE m.val[2] = "b" -> "TagByte"
                             [] m.val[2] = "s" -> "TagShort"
                             [] m.val[2] = "l" -> "TagLong"
                             [] OTHER -> "TagInt"
                IN  Constructed(cls, TagNumber_init(cls, PyInt(m.val[1]), None), s)
            ELSE IF chunk = Text(<<"t", "r", "u", "e">>) THEN
                Constructed("TagByte", TagNumber_init("TagByte", PyInt(Big(1)), None), s)
            ELSE IF chunk = Text(<<"f", "a", "l", "s", "e">>) THEN
                Constructed("TagByte", TagNumber_init("TagByte", PyInt(Big(0)), None), s)
            ELSE Fail("ValueError", s))

RECURSIVE parse_rec(_)
RECURSIVE parse_array_loop(_, _, _)
RECURSIVE parse_list_loop(_, _)
RECURSIVE parse_compound_loop(_, _)

\* the while loop of the integer arrays in _parse_rec, values read so far
parse_array_loop(s0, atype, values) ==
    LET s == lstrip(s0)
    IN  IF s = <<>> THEN Fail("ValueError", s)
        ELSE IF s[1] = Ord("]") THEN
            LET cls == CASE atype = "b" -> "TagByteArray"
                         [] atype = "l" -> "TagLongArray"
                         [] OTHER -> "TagIntArray"
            IN  Constructed(cls,
                    TagNumberArray_init(cls,
                        PyList([i \in 1..Len(values) |-> PyInt(values[i])]), None),
                    Tail(s))
        ELSE IF values # <<>> /\ s[1] # Ord(",") THEN Fail("ValueError", s)
        ELSE Bind(try_parse_integer(IF values # <<>> THEN lstrip(Tail(s)) ELSE s),
                  LAMBDA res :
                    IF res.raised # "" THEN res
                    ELSE IF res.val = None THEN Fail("ValueError", res.rest)
                    ELSE IF res.val[2] # atype THEN Fail("ValueError", res.rest)
                    ELSE parse_array_loop(res.rest, atype, Append(values, res.val[1])))

parse_list_loop_EmptyAsByte(s0, tags) ==
    LET s == lstrip(s0)
    IN  IF s = <<>> THEN Fail("ValueError", s)
        ELSE IF s[1] = Ord("]") THEN
            Constructed("TagList",
                TagList_init(IF tags # <<>> THEN PyType(tags[1]) ELSE "TagByte",
                             PyList(tags), None),
                Tail(s))
        ELSE IF tags # <<>> /\ s[1] # Ord(",") THEN Fail("ValueError", s)
        ELSE Bind(parse_rec(IF tags # <<>> THEN lstrip(Tail(s)) ELSE s),
                  LAMBDA r :
                    IF r.raised # "" THEN r
                    ELSE parse_list_loop(r.rest, Append(tags, r.val)))

\* the while loop of the list tag in _parse_rec, tags read so far
parse_list_loop(s0, tags) ==
    LET s == lstrip(s0)
    IN  IF s = <<>> THEN Fail("ValueError", s)
        ELSE IF s[1] = Ord("]") THEN
            Constructed("TagList",
                TagList_init(IF tags # <<>> THEN PyType(tags[1]) ELSE "TagInt",
                             PyList(tags), None),
                Tail(s))
        ELSE IF tags # <<>> /\ s[1] # Ord(",") THEN Fail("ValueError", s)
        ELSE Bind(parse_rec(IF tags # <<>> THEN lstrip(Tail(s)) ELSE s),
                  LAMBDA r :
                    IF r.raised # "" THEN r
                    ELSE parse_list_loop(r.rest, Append(tags, r.val)))

\* the while loop of the compound tag in _parse_rec, tags the dict so far
parse_compound_loop(s0, tags) ==
    LET s == lstrip(s0)
    IN  IF s = <<>> THEN Fail("ValueError", s)
        ELSE IF s[1] = Ord("}") THEN
            Constructed("TagCompound", TagCompound_init(PyDict(tags), None), Tail(s))
        ELSE IF tags # <<>> /\ s[1] # Ord(",") THEN Fail("ValueError", s)
        ELSE Bind(IF tags # <<>> THEN lstrip(Tail(s)) ELSE s, LAMBDA s2 :
            IF s2 = <<>> THEN Fail("IndexError", s2)
            ELSE Bind(IF s2[1] \in {Ord("\""), Ord("'")} THEN parse_quoted_string(s2)
                      ELSE parse_unquoted_string(s2),
                      LAMBDA k :
                IF k.raised # "" THEN k
                ELSE LET ws == PrefixLen(k.rest, Whitespace)
                     IN  IF ws = Len(k.rest) \/ k.rest[ws + 1] # Ord(":")
                         THEN Fail("ValueError", k.rest)
                         ELSE Bind(parse_rec(From(k.rest, ws + 1)), LAMBDA v :
                            IF v.raised # "" THEN v
                            ELSE parse_compound_loop(v.rest,
                                    DictSet(tags, PyStr(k.val), v.val)))))

\* _parse_rec(s)
parse_rec(s0) ==
    LET s == lstrip(s0)
    IN  IF s = <<>> THEN Fail("ValueError", s)
        ELSE IF s[1] \in {Ord("\""), Ord("'")} THEN
            Bind(parse_quoted_string(s), LAMBDA q :
                IF q.raised # "" THEN q
                ELSE Constructed("TagString", TagString_init(PyStr(q.val), None), q.rest))
        ELSE IF /\ Len(s) >= 3 /\ s[1] = Ord("[") /\ s[3] = Ord(";")
                /\ s[2] \in {Ord("B"), Ord("I"), Ord("L")} THEN
            parse_array_loop(From(s, 3),
                             CASE s[2] = Ord("B") -> "b" [] s[2] = Ord("I") -> "i"
                               [] s[2] = Ord("L") -> "l",
                             <<>>)
        ELSE IF s[1] = Ord("[") THEN parse_list_loop(Tail(s), <<>>)
        ELSE IF s[1] = Ord("{") THEN parse_compound_loop(Tail(s), <<>>)
        ELSE Bind(parse_unquoted_string(s), LAMBDA u :
                IF u.raised # "" THEN u ELSE parse_chunk(u.val, u.rest))

\* parse_snbt(s)
parse_snbt(s) ==
    Bind(parse_rec(s), LAMBDA r :
        IF r.raised # "" THEN r
        ELSE IF r.rest = <<>> \/ isspace(r.rest) THEN r
        ELSE Fail("ValueError", r.rest))


(***************************************************************************)
(* SNBT as a state machine: the program builds a tag and prints it, or     *)
(* takes a text (a number token put together from its parts, or one of the *)
(* texts of the tests), and parses the text.                               *)
(***************************************************************************)
\* the constructor calls that build the leaves: <<cls, argument>>
SnbtLeafCalls ==
    {<<"TagByte", PyInt(Big(-2))>>, <<"TagShort", PyInt(Big(258))>>,
     <<"TagInt", PyInt(Big(0))>>, <<"TagLong", PyInt(Pow2(40))>>,
     <<"TagFloat", PyFloat(Dec(FALSE, <<1, 5>>, -1))>>,
     <<"TagDouble", PyFloat(Dec(TRUE, <<2, 5>>, -6))>>,
     <<"TagDouble", PyFloat(NaN)>>,
     <<"TagString", PyStr(<<>>)>>, <<"TagString", PyStr(Text(<<"a", " ">>))>>,
     <<"TagString", PyStr(Text(<<"\"">>))>>, <<"TagString", PyStr(Text(<<"\\">>))>>,
     <<"TagString", PyStr(<<233, 10>>)>>,
     <<"TagByteArray", PyList(<<PyInt(Big(1)), PyInt(Big(-2))>>)>>,
     <<"TagIntArray", None>>,
     <<"TagLongArray", PyList(<<PyInt(Big(-1))>>)>>}

SnbtKeys == {PyStr(Text(<<"k">>)), PyStr(Text(<<"a", " ">>))}

\* the parts of a number token
TokSigns == {<<>>, Text(<<"+">>), Text(<<"-">>)}
TokInts ==
    {<<>>, Text(<<"0">>), Text(<<"7">>), Text(<<"1", "2">>), Text(<<"0", "0", "7">>),
     Text(<<"2", "0", "0">>), Text(<<"4", "0", "0", "0", "0">>)}
TokFracs == {<<>>, Text(<<".">>), Text(<<".", "5">>), Text(<<".", "2", "5">>)}
TokExps ==
    {<<>>, Text(<<"e", "1">>), Text(<<"e", "-", "1">>), Text(<<"e", "+", "2">>),
     Text(<<"e">>)}
TokSuffixes ==
    {<<>>, Text(<<"b">>), Text(<<"s">>), Text(<<"l">>), Text(<<"f">>), Text(<<"d">>),
     Text(<<"B">>), Text(<<"x">>)}

\* texts of test_parseable, and one whose compound repeats a key
SnbtParseableTexts ==
    {Text(<<"t", "r", "u", "e">>), Text(<<"f", "a", "l", "s", "e">>),
     Text(<<"'", "a", ":", "b", "!", "'">>),
     Text(<<"\"", "a", " ", "\\", "'", "b", "\\", "'", " ", "\"">>),
     Text(<<"\"", "e", " ", "\\", "\"", " ", "\\", "\\", "\\", "\\", "\"">>),
     Text(<<"[", "L", ";", " ", "1", "l", ",", " ", "-", "2", "l", ",", " ", "3", "l", "]">>),
     Text(<<" ", "[", " ", "[", " ", "1", " ", "]", ",", " ", "[", " ", "-", "2", " ", "]", " ", "]", " ">>),
     Text(<<"[", "\"", "p", " ", "m", "\"", ",", " ", "\"", " ", "q", " ", "\"", "]">>),
     Text(<<"{", "}">>), Text(<<"[", "]">>),
     Text(<<"{", "t", ":", "\"", "3", "\"", "}">>),
     Text(<<"{", "\"", "b", " ", "k", "\"", ":", "{", "}", "}">>),
     Text(<<"{", " ", "s", " ", ":", " ", "3", " ", ",", " ", "e", " ", ":", " ", "7", "s", " ", "}">>),
     Text(<<"{", "a", ":", "1", ",", "a", ":", "2", "b", "}">>)}

\* texts of test_unparseable and more of their kinds: empty and blank text,
\* text after a complete value, unclosed strings, arrays, lists and
\* compounds, wrong array elements and prefixes, compound pairs without
\* ':', key or value, trailing commas
SnbtUnparseableTexts ==
    {<<>>, Text(<<" ">>), Text(<<" ", " ">>),
     Text(<<"1", "2", "3", " ", "\"", "m", "\"">>), Text(<<"\"", "u", "n">>),
     Text(<<"\"", "b", "\\", "\"">>), Text(<<"\"">>), Text(<<"[", "I", ";", "1">>),
     Text(<<"[", "I", ";", "1", ",">>), Text(<<"[", "1">>), Text(<<"[", "1", ",">>),
     Text(<<"[", "[", "]", ",", "[", "]">>), Text(<<"{">>),
     Text(<<"{", "k", ":", "1">>), Text(<<"{", "k", ":", "1", ",">>),
     Text(<<"[", "I", ";", "1", ",", "2", "b", "]">>),
     Text(<<"[", "I", ";", "1", ",", "\"", "n", "\"", "]">>),
     Text(<<"[", "?", ";", "1", ",", "2", "]">>),
     Text(<<"{", "b", " ", "k", ":", "1", "}">>),
     Text(<<"{", "k", ":", "1", ",", "n", "}">>),
     Text(<<"{", ":", "\"", "v", "\"", "}">>), Text(<<"{", "k", ":", "}">>),
     Text(<<"[", "1", ",", "2", ",", "]">>), Text(<<"[", "I", ";", "1", ",", "]">>),
     Text(<<"{", "k", ":", "1", ",", "}">>)}

\* unquoted tokens that are no number, an array element out of range, a
\* list of two kinds
SnbtOtherTexts ==
    {Text(<<"T", "r", "u", "e">>), Text(<<"a", "b", "c">>), Text(<<"a", ".", "b">>),
     Text(<<"[", "B", ";", "2", "0", "0", "b", "]">>),
     Text(<<"[", "1", ",", "2", "b", "]">>)}

SnbtTexts == SnbtParseableTexts \cup SnbtUnparseableTexts \cup SnbtOtherTexts

SnbtInit ==
    /\ tag = None /\ op = "start" /\ arg = None /\ raised = "" /\ ret = None
    /\ file = <<>>

\* file = to_snbt(tag, sort=sort)
SnbtPrint(sort) ==
    /\ op = "build" /\ raised = ""
    /\ file' = to_snbt(tag, sort)
    /\ op' = "print" /\ arg' = PyBool(sort)
    /\ UNCHANGED <<tag, raised, ret>>

\* file = sign + integer part + fraction + exponent + suffix
SnbtToken(sign, ip, fp, ex, suf) ==
    /\ op = "start"
    /\ file' = sign \o ip \o fp \o ex \o suf
    /\ op' = "token" /\ arg' = <<"token", sign, ip, fp, ex, suf>>
    /\ UNCHANGED <<tag, raised, ret>>

\* file = s
SnbtText(s) ==
    /\ op = "start"
    /\ file' = s
    /\ op' = "text" /\ arg' = None
    /\ UNCHANGED <<tag, raised, ret>>

\* tag = parse_snbt(file)
SnbtParse ==
    /\ op \in {"print", "token", "text"}
    /\ LET r == parse_snbt(file)
       IN  /\ raised' = r.raised
           /\ tag' = IF r.raised = "" THEN r.val ELSE tag
    /\ op' = "parse"
    /\ UNCHANGED <<arg, ret, file>>

SnbtNext ==
    \/ \E call \in SnbtLeafCalls : BinBuild(call[1], call[2])
    \/ \E n \in {0, 2} : BinWrapList(n)
    \/ \E key \in SnbtKeys : BinWrapCompound(key)
    \/ \E key \in SnbtKeys : BinAddEntry(key)
    \/ \E sort \in BOOLEAN : SnbtPrint(sort)
    \/ \E sign \in TokSigns, ip \in TokInts, fp \in TokFracs, ex \in TokExps,
          suf \in TokSuffixes : SnbtToken(sign, ip, fp, ex, suf)
    \/ \E s \in SnbtTexts : SnbtText(s)
    \/ SnbtParse

SpecSnbt == SnbtInit /\ [][SnbtNext]_vars


\* whether the tag t is or holds a TagFloat or a TagDouble
RECURSIVE HasFloat(_)
HasFloat(t) ==
    CASE Cls(t) \in FloatClasses -> TRUE
      [] Cls(t) = "TagList" -> \E i \in 1..Len(t[3]) : HasFloat(t[3][i])
      [] Cls(t) = "TagCompound" -> \E i \in 1..Len(Value(t)) : HasFloat(Value(t)[i][2])
      [] OTHER -> FALSE

(* C3: SNBT round trip.  For every tag T made of integer scalars, arrays,
   strings, lists (empty lists of any element kind included) and compounds,
   nested to any depth, parse_snbt(to_snbt(T)) raises nothing and returns a
   tag equal to T. *)
C3_SnbtRoundTrip ==
    [][(op = "print" /\ arg = PyBool(FALSE) /\ ~HasFloat(tag) /\ op' = "parse") =>
          (raised' = "" /\ Tag_eq(tag', tag))]_vars

\* the parts of the number token that was parsed
TokenParsed == op = "parse" /\ arg[1] = "token"
TokSign == arg[2]
TokInt == arg[3]
TokFrac == arg[4]
TokExp == arg[5]
TokSuffix == arg[6]

\* the digits of a text of digit characters
DigitsOf(s) == [i \in 1..Len(s) |-> s[i] - Ord("0")]

\* the token is an integer literal (0, or digits that no 0 leads) with
\* suffix b, s, l or none
IntegerLiteral ==
    /\ TokInt # <<>> /\ (TokInt[1] = Ord("0") => Len(TokInt) = 1)
    /\ TokFrac = <<>> /\ TokExp = <<>>
    /\ TokSuffix \in {<<>>, Text(<<"b">>), Text(<<"s">>), Text(<<"l">>)}

\* the magnitude has a digit; the exponent, if any, is e, an optional sign
\* and digits
MagnitudeOk ==
    /\ TokInt # <<>> \/ Len(TokFrac) > 1
    /\ \/ TokExp = <<>>
       \/ Len(TokExp) > (IF Len(TokExp) > 1 /\ TokExp[2] \in {Ord("+"), Ord("-")}
                         THEN 2 ELSE 1)

\* the token is a magnitude with suffix f or d
FloatLiteral == MagnitudeOk /\ TokSuffix \in {Text(<<"f">>), Text(<<"d">>)}

\* the token is a magnitude with a '.' and no suffix
DotLiteral == MagnitudeOk /\ TokFrac # <<>> /\ TokSuffix = <<>>

\* the kind that the suffix names
KindOf(suf) ==
    CASE suf = Text(<<"b">>) -> "TagByte"
      [] suf = Text(<<"s">>) -> "TagShort"
      [] suf = Text(<<"l">>) -> "TagLong"
      [] suf = Text(<<"f">>) -> "TagFloat"
      [] suf = Text(<<"d">>) -> "TagDouble"
      [] suf = <<>> -> IF TokFrac = <<>> THEN "TagInt" ELSE "TagDouble"

\* the signed integer the token denotes
ExpectedInt ==
    IF TokSign = Text(<<"-">>) THEN BigNeg(int_of_digits(TokInt))
    ELSE int_of_digits(TokInt)

\* the signed decimal the token denotes
ExpectedFloat ==
    LET fr == IF TokFrac = <<>> THEN <<>> ELSE Tail(TokFrac)
        xd == IF TokExp = <<>> THEN <<>>
              ELSE IF TokExp[2] \in {Ord("+"), Ord("-")} THEN From(TokExp, 2)
              ELSE Tail(TokExp)
        xv == DigitsValue(DigitsOf(xd))
    IN  Decimal(TokSign = Text(<<"-">>), DigitsOf(TokInt) \o DigitsOf(fr),
                (IF TokExp # <<>> /\ TokExp[2] = Ord("-") THEN -xv ELSE xv) - Len(fr))

(* C10: SNBT literal typing.  parse_snbt maps a number token to the kind
   its suffix names: an integer literal with suffix b to TagByte, s to
   TagShort, l to TagLong, none to TagInt; a magnitude with suffix f to
   TagFloat, with suffix d to TagDouble, one with a '.' and no suffix to
   TagDouble; the tag holds the signed value of the token (for an integer
   kind, as the constructor of the kind stores it); true parses to
   TagByte(1) and false to TagByte(0). *)
C10_LiteralTyping ==
    /\ (TokenParsed /\ IntegerLiteral) =>
          /\ raised = ""
          /\ tag = MkTag(KindOf(TokSuffix),
                         TagNumber_init(KindOf(TokSuffix), PyInt(ExpectedInt), None).val)
    /\ (TokenParsed /\ (FloatLiteral \/ DotLiteral)) =>
          /\ raised = ""
          /\ tag = MkTag(KindOf(TokSuffix),
                         IF KindOf(TokSuffix) = "TagFloat" THEN round_f32(ExpectedFloat)
                         ELSE ExpectedFloat)
    /\ (op = "parse" /\ file = Text(<<"t", "r", "u", "e">>)) =>
          (raised = "" /\ tag = MkTag("TagByte", Big(1)))
    /\ (op = "parse" /\ file = Text(<<"f", "a", "l", "s", "e">>)) =>
          (raised = "" /\ tag = MkTag("TagByte", Big(0)))

C10_Witness ==
    /\ op = "parse" /\ raised = ""
    /\ arg = <<"token", Text(<<"-">>), Text(<<"1", "2">>), <<>>, <<>>, Text(<<"b">>)>>
    /\ tag = MkTag("TagByte", Big(-12))


(* C11: SNBT rejection.  For every text of a failure class (empty or blank
   text, text after a complete value, an unclosed quoted string, an array,
   list or compound unclosed at any point, right after a comma included, an
   array element that is no integer or has the wrong suffix, an unknown
   array prefix, a compound pair without ':', key or value, a trailing
   comma), parse_snbt raises ValueError: it returns no tag and raises no
   other exception. *)
C11_SnbtRejection ==
    (op = "parse" /\ file \in SnbtUnparseableTexts) => raised = "ValueError"

\* the text parsed is one unquoted token without a digit in its magnitude,
\* and neither true nor false: it is no float, no integer and no literal
WordParsed ==
    /\ op = "parse"
    /\ \/ arg[1] = "token" /\ TokInt = <<>> /\ Len(TokFrac) <= 1 /\ file # <<>>
       \/ file \in {Text(<<"T", "r", "u", "e">>), Text(<<"a", "b", "c">>),
                    Text(<<"a", ".", "b">>)}

(* C12: SNBT disambiguation.  An unquoted token over [0-9A-Za-z._+-] that
   is no float, no integer and neither true nor false parses to a TagString
   that holds the text of the token. *)
C12_UnquotedFallback ==
    WordParsed => (raised = "" /\ tag = MkTag("TagString", file))


\* the class of each kind id 1..12 (the NBT format)
KindClass ==
    <<"TagByte", "TagShort", "TagInt", "TagLong", "TagFloat", "TagDouble",
      "TagByteArray", "TagString", "TagList", "TagCompound", "TagIntArray",
      "TagLongArray">>

\* the name that the stream B stores after its kind byte
StoredName(B) == Utf8Decode(SubSeq(B, 4, 3 + Unsigned16(SubSeq(B, 2, 3)))).val

(* C13: root stream kinds.  read_nbt_file takes a root of every kind 1..12,
   not only Compound: it reads back every written root, and whenever it
   returns, the tag has the class of the kind byte and the name returned
   with with_name=True is the name the stream stores; a kind byte of 0 or
   outside 0..12 raises NbtUnpackError. *)
C13_RootKinds ==
    [][op' = "read" =>
          /\ (file # <<>> /\ file[1] \notin 1..12) => raised' = "NbtUnpackError"
          /\ (file # <<>> /\ file[1] \in 1..12 /\ raised' = "") =>
                /\ Cls(tag') = KindClass[file[1]]
                /\ ret' = PyStr(StoredName(file))
          /\ op = "write" => (raised' = "" /\ file[1] = tagid(Cls(tag)))]_vars

C13_Witness ==
    /\ op = "read" /\ raised = "" /\ file = <<8, 0, 1, 110, 0, 3, 195, 169, 65>>
    /\ tag = MkTag("TagString", <<233, 65>>) /\ ret = PyStr(<<110>>)


(* C14: unpack error kind.  A read of a written stream that lost its last
   byte (the stream ends prematurely), when it fails, fails with
   NbtUnpackError and with no other exception type. *)
C14_UnpackErrorKind ==
    [][(op = "damage" /\ arg = <<"truncate">> /\ op' = "read" /\ raised' # "")
          => raised' = "NbtUnpackError"]_vars


(***************************************************************************)
(* Long strings: TagString(c * n) for lengths around the limits of a       *)
(* 16-bit length, written by TagString.write, written as the root of a     *)
(* file, written as the root name of a file, and read back.                *)
(***************************************************************************)
\* the lengths n of the strings c * n
StrLens == {0, 1, 2, 127, 128, 10922, 10923, 16383, 16384, 21845, 21846,
            32767, 32768, 65535, 65536}

\* the characters c: one, two and three bytes of UTF-8
StrChars == {97, 233, 8364}

\* files longer than this are not read back
MaxStrReadLen == 300

StrInit ==
    /\ tag = None /\ op = "start" /\ arg = None /\ raised = "" /\ ret = None
    /\ file = <<>>

\* tag = TagString(c * n)
StrBuild(c, n) ==
    /\ op = "start"
    /\ LET r == TagString_init(PyStr([i \in 1..n |-> c]), None)
       IN  raised' = r.raised /\ tag' = MkTag("TagString", r.val)
    /\ op' = "str_build" /\ arg' = <<c, n>>
    /\ UNCHANGED <<ret, file>>

\* tag.write(stream) on an empty stream
StrWrite ==
    /\ op = "str_build" /\ raised = ""
    /\ LET w == TagString_write(tag)
       IN  raised' = w.raised /\ file' = w.out
    /\ op' = "str_write"
    /\ UNCHANGED <<tag, arg, ret>>

\* write_nbt_file(file, tag, compress=False), or, as_name,
\* write_nbt_file(file, TagString(''), root_name=tag.value, compress=False)
StrWriteRoot(as_name) ==
    /\ op = "str_build" /\ raised = ""
    /\ LET w == IF as_name THEN write_nbt_file(MkTag("TagString", <<>>), PyStr(Value(tag)))
                ELSE write_nbt_file(tag, PyStr(<<>>))
       IN  raised' = w.raised /\ file' = w.out
    /\ op' = IF as_name THEN "str_write_name" ELSE "str_write_root"
    /\ UNCHANGED <<tag, arg, ret>>

\* read_nbt_file(file, with_name=True) of what was written
StrRead ==
    /\ op \in {"str_write_name", "str_write_root"} /\ raised = ""
    /\ Len(file) <= MaxStrReadLen
    /\ LET r == read_nbt_file(file)
       IN  /\ raised' = r.raised
           /\ tag' = IF r.raised = "" THEN r.val[1] ELSE tag
           /\ ret' = IF r.raised = "" THEN r.val[2] ELSE None
    /\ op' = IF op = "str_write_name" THEN "str_read_name" ELSE "str_read_root"
    /\ UNCHANGED <<arg, file>>

StrNext ==
    \/ \E c \in StrChars, n \in StrLens : StrBuild(c, n)
    \/ StrWrite
    \/ \E as_name \in BOOLEAN : StrWriteRoot(as_name)
    \/ StrRead

SpecStr == StrInit /\ [][StrNext]_vars

\* the string c * n that arg = <<c, n>> denotes, and its UTF-8 bytes
StrOf(a) == [i \in 1..a[2] |-> a[1]]
StrRaw(a) == Utf8Encode(StrOf(a))

\* the two bytes of the unsigned 16-bit big-endian n
Prefix16(n) == <<n \div 256, n % 256>>

(* C15: string length prefix.  Writing a string, as a TagString or as a
   root name, emits the length of its UTF-8 encoding as an unsigned 16-bit
   big-endian prefix followed by the bytes: every string whose encoding is
   at most 65535 bytes long encodes, a longer one fails; reading such a
   file gives the string back. *)
C15_StringPrefix ==
    /\ op \in {"str_write", "str_write_root", "str_write_name"} =>
          IF Len(StrRaw(arg)) > 65535 THEN raised # ""
          ELSE /\ raised = ""
               /\ file = CASE op = "str_write" -> Prefix16(Len(StrRaw(arg))) \o StrRaw(arg)
                           [] op = "str_write_root" ->
                                <<8, 0, 0>> \o Prefix16(Len(StrRaw(arg))) \o StrRaw(arg)
                           [] op = "str_write_name" ->
                                <<8>> \o Prefix16(Len(StrRaw(arg))) \o StrRaw(arg) \o <<0, 0>>
    /\ op = "str_read_root" => (raised = "" /\ tag = MkTag("TagString", StrOf(arg)))
    /\ op = "str_read_name" => (raised = "" /\ ret = PyStr(StrOf(arg)))


(***************************************************************************)
(* Array tags as a state machine: the program constructs an array tag and  *)
(* assigns and inserts elements.                                           *)
(***************************************************************************)
\* the longest array
MaxArrayLen == 2

\* the values given: ints around the limits of the three item widths, a
\* bool, a str and a float
ArrayValues ==
    {PyInt(BigAdd(BigMulSmall(Pow2(8 * itemsize(c) - 1), j), Big(o))) :
        c \in ArrayClasses, j \in {-1, 1}, o \in {-1, 0}}
    \cup {PyInt(Big(0)), PyInt(Big(130)), PyBool(TRUE), PyStr(Text(<<"1">>)),
          PyFloat(Dec(FALSE, <<1>>, 0))}

\* the lists given to the constructor
ArrayLists ==
    {None, PyList(<<>>)} \cup {PyList(<<v>>) : v \in ArrayValues}
    \cup {PyList(<<v, PyInt(Big(130))>>) : v \in ArrayValues}

IsArray(t) == t # None /\ Cls(t) \in ArrayClasses

ArrayInit ==
    /\ tag = None /\ op = "start" /\ arg = None /\ raised = "" /\ ret = None
    /\ file = <<>>

\* tag = cls(numbers)
ArrayConstruct(cls, numbers) ==
    /\ op = "start"
    /\ LET r == TagNumberArray_init(cls, numbers, None)
       IN  raised' = r.raised /\ tag' = IF r.raised = "" THEN MkTag(cls, r.val) ELSE None
    /\ op' = "array_init" /\ arg' = <<cls, numbers>>
    /\ UNCHANGED <<ret, file>>

\* tag[index] = value
ArraySetItem(index, value) ==
    /\ IsArray(tag)
    /\ LET r == TagNumberArray_setitem(Cls(tag), Value(tag), index, value)
       IN  raised' = r.raised /\ tag' = MkTag(Cls(tag), r.val)
    /\ op' = "array_setitem" /\ arg' = <<index, value>>
    /\ UNCHANGED <<ret, file>>

\* tag.insert(index, value)
ArrayInsert(index, value) ==
    /\ IsArray(tag) /\ Len(Value(tag)) < MaxArrayLen
    /\ LET r == TagNumberArray_insert(Cls(tag), Value(tag), index, value)
       IN  raised' = r.raised /\ tag' = MkTag(Cls(tag), r.val)
    /\ op' = "array_insert" /\ arg' = <<index, value>>
    /\ UNCHANGED <<ret, file>>

ArrayNext ==
    \/ \E cls \in ArrayClasses, numbers \in ArrayLists : ArrayConstruct(cls, numbers)
    \/ \E index \in (-MaxArrayLen - 1)..MaxArrayLen, value \in ArrayValues :
          ArraySetItem(index, value)
    \/ \E index \in (-MaxArrayLen - 1)..MaxArrayLen, value \in ArrayValues :
          ArrayInsert(index, value)

SpecArray == ArrayInit /\ [][ArrayNext]_vars

\* the scalar class of the item width of an array class
ScalarOf(cls) ==
    CASE cls = "TagByteArray" -> "TagByte"
      [] cls = "TagIntArray" -> "TagInt"
      [] cls = "TagLongArray" -> "TagLong"

\* what the scalar constructor of the item width stores for the int v
Wrapped(cls, v) == TagNumber_init(ScalarOf(cls), v, None).val

(* C16: array element wrap.  For TagByteArray, TagIntArray and TagLongArray,
   construction from a list of ints, assignment of an int to an element
   that exists and insertion of an int raise nothing and store the value
   wrapped as the scalar constructor of the same width wraps it; every
   stored element lies in the signed range of the item width. *)
C16_ArrayWrap ==
    /\ (op = "array_init" /\ arg[2] # None
           /\ \A i \in 1..Len(arg[2][2]) : isinstance_int(arg[2][2][i])) =>
          /\ raised = ""
          /\ Value(tag) = [i \in 1..Len(arg[2][2]) |-> Wrapped(arg[1], arg[2][2][i])]
    /\ (op = "array_setitem" /\ isinstance_int(arg[2])
           /\ arg[1] >= -Len(Value(tag)) /\ arg[1] < Len(Value(tag))) =>
          /\ raised = ""
          /\ Value(tag)[(IF arg[1] < 0 THEN arg[1] + Len(Value(tag)) ELSE arg[1]) + 1]
                = Wrapped(Cls(tag), arg[2])
    /\ (op = "array_insert" /\ isinstance_int(arg[2])) =>
          /\ raised = ""
          /\ Value(tag)[(IF arg[1] < 0 THEN Max(arg[1] + Len(Value(tag)) - 1, 0)
                         ELSE Min(arg[1], Len(Value(tag)) - 1)) + 1]
                = Wrapped(Cls(tag), arg[2])
    /\ IsArray(tag) =>
          \A i \in 1..Len(Value(tag)) :
              InSignedRange(Value(tag)[i], Pow2(8 * itemsize(Cls(tag))))


(***************************************************************************)
(* zlib, for the streams whose deflate data is one stored block (what      *)
(* zlib.compress(data, 0) makes of up to 65535 bytes).                     *)
(***************************************************************************)
\* the sums <<a, b>> of Adler-32 over data, continued from a and b
RECURSIVE AdlerSums(_, _, _)
AdlerSums(data, a, b) ==
    IF data = <<>> THEN <<a, b>>
    ELSE AdlerSums(Tail(data), (a + data[1]) % 65521, (b + a + data[1]) % 65521)

\* the four big-endian bytes of zlib.adler32(data)
zlib_adler32(data) ==
    Bind(AdlerSums(data, 1, 0), LAMBDA s :
        <<s[2] \div 256, s[2] % 256, s[1] \div 256, s[1] % 256>>)

\* zlib.compress(data, 0) of fewer than 65536 bytes
zlib_compress(data) ==
    <<120, 1, 1, Len(data) % 256, Len(data) \div 256,
      255 - (Len(data) % 256), 255 - (Len(data) \div 256)>>
        \o data \o zlib_adler32(data)

\* zlib.decompress(data): [raised, val].  After a valid header the stream is
\* one final stored block; bytes after the checksum are ignored.
zlib_decompress(data) ==
    IF Len(data) < 2 THEN Raise("zlib.error", None)
    ELSE IF \/ (data[1] * 256 + data[2]) % 31 # 0
            \/ data[1] % 16 # 8 \/ data[1] \div 16 > 7
            \/ (data[2] \div 32) % 2 = 1
        THEN Raise("zlib.error", None)
    ELSE IF Len(data) < 7 THEN Raise("zlib.error", None)
    ELSE CASE data[3] % 8 = 1 ->
        LET len  == data[4] + 256 * data[5]
            nlen == data[6] + 256 * data[7]
        IN  IF len + nlen # 65535 THEN Raise("zlib.error", None)
            ELSE IF Len(data) < 11 + len THEN Raise("zlib.error", None)
            ELSE IF SubSeq(data, 8 + len, 11 + len) # zlib_adler32(SubSeq(data, 8, 7 + len))
                THEN Raise("zlib.error", None)
            ELSE Return(SubSeq(data, 8, 7 + len))

(***************************************************************************)
(* Paths and files.  A path is a str; the files are a function from the    *)
(* paths that exist to the bytes of each.                                  *)
(***************************************************************************)
\* the index of the last "/" of path, 0 if it has none
LastSlash(path) ==
    IF \E i \in 1..Len(path) : path[i] = Ord("/")
    THEN CHOOSE i \in 1..Len(path) :
             path[i] = Ord("/") /\ \A j \in (i + 1)..Len(path) : path[j] # Ord("/")
    ELSE 0

\* os.path.basename(path)
basename(path) == From(path, LastSlash(path))

\* os.path.dirname(path), for a path whose directory part ends in no "//"
dirname(path) ==
    CASE LastSlash(path) <= 1 -> SubSeq(path, 1, LastSlash(path))
      [] LastSlash(path) > 1 /\ path[LastSlash(path) - 1] # Ord("/") ->
            SubSeq(path, 1, LastSlash(path) - 1)

\* os.path.join(a, b)
path_join(a, b) ==
    IF b # <<>> /\ b[1] = Ord("/") THEN b
    ELSE IF a = <<>> \/ a[Len(a)] = Ord("/") THEN a \o b
    ELSE a \o <<Ord("/")>> \o b

\* the match of r'(-?\d+)' at the start of s: its length, 0 if none
SignedDigitsLen(s) ==
    LET sign == IF s # <<>> /\ s[1] = Ord("-") THEN 1 ELSE 0
        n    == PrefixLen(From(s, sign), Digits)
    IN  IF n = 0 THEN 0 ELSE sign + n

\* int(text) of a text that r'-?\d+' matches
int_of_signed(s) ==
    IF s[1] = Ord("-") THEN BigNeg(int_of_digits(From(s, 1))) ELSE int_of_digits(s)

\* region_pos_from_path(path): None or <<rx, rz>>
region_pos_from_path(path) ==
    LET name == basename(path)
        a    == From(name, 2)
        na   == SignedDigitsLen(a)
        b    == From(a, na + 1)
        nb   == SignedDigitsLen(b)
        ext  == From(b, nb)
    IN  IF /\ Len(name) >= 2 /\ SubSeq(name, 1, 2) = Text(<<"r", ".">>)
           /\ na > 0 /\ Len(a) > na /\ a[na + 1] = Ord(".")
           /\ nb > 0
           /\ ext \in {Text(<<".", "m", "c", "a">>), Text(<<".", "m", "c", "r">>),
                       Text(<<".", "m", "c", "a">>) \o <<10>>,
                       Text(<<".", "m", "c", "r">>) \o <<10>>}
        THEN <<int_of_signed(SubSeq(a, 1, na)), int_of_signed(SubSeq(b, 1, nb))>>
        ELSE None

(***************************************************************************)
(* Region.  self._chunks is a list of CHUNKS_WIDTH rows of CHUNKS_WIDTH    *)
(* entries; an entry is None, <<"bytes", data>> or a Chunk                 *)
(* <<"Chunk", id, chunk_nbt>>, id telling the Chunk objects apart.         *)
(***************************************************************************)
CHUNKS_WIDTH == 32

\* the size of a sector
SectorSize == 4096

\* Region.__init__: self._chunks
Region_init == [z \in 1..CHUNKS_WIDTH |-> [x \in 1..CHUNKS_WIDTH |-> None]]

\* rfile.seek(pos); rfile.read(n) for n >= 0
file_read(rfile, pos, n) ==
    IF pos >= Len(rfile) THEN <<>>
    ELSE IF n >= Len(rfile) - pos THEN SubSeq(rfile, pos + 1, Len(rfile))
    ELSE SubSeq(rfile, pos + 1, pos + n)

\* struct.unpack('>I', b) of four bytes, below 2^31
Unsigned32(b) ==
    CASE b[1] < 128 -> ((b[1] * 256 + b[2]) * 256 + b[3]) * 256 + b[4]

\* the four bytes of header entry i (i = z * CHUNKS_WIDTH + x), fewer at the
\* end of the file
header_entry(rfile, i) == file_read(rfile, 4 * i, 4)

\* (loc_info >> 8) * 4096 of an entry whose offset is below 2^16 sectors
entry_offset(b) ==
    CASE b[1] = 0 -> (b[2] * 256 + b[3]) * SectorSize

\* chunk_locations after the header loop: the (offset, x, z) of the entries
\* that are not 0
chunk_locations(rfile) ==
    {<<entry_offset(header_entry(rfile, i)), i % CHUNKS_WIDTH, i \div CHUNKS_WIDTH>> :
        i \in {j \in 0..(CHUNKS_WIDTH * CHUNKS_WIDTH - 1) :
                  header_entry(rfile, j) # <<0, 0, 0, 0>>}}

\* a < b of two tuples (offset, x, z)
LocationLt(a, b) ==
    \/ a[1] < b[1]
    \/ a[1] = b[1] /\ a[2] < b[2]
    \/ a[1] = b[1] /\ a[2] = b[2] /\ a[3] < b[3]

\* sorted(chunk_locations)
sorted_locations(locs) ==
    [i \in 1..Cardinality(locs) |->
        CHOOSE t \in locs : Cardinality({u \in locs : LocationLt(u, t)}) = i - 1]

\* 'c.{}.{}.mcc'.format(x + rxz[0] * 32, z + rxz[1] * 32)
external_name(rxz, x, z) ==
    Text(<<"c", ".">>) \o int_format(BigAdd(Big(x), BigMulSmall(rxz[1], 32)))
        \o Text(<<".">>) \o int_format(BigAdd(Big(z), BigMulSmall(rxz[2], 32)))
        \o Text(<<".", "m", "c", "c">>)

\* the loop over sorted(chunk_locations) of from_file, from the i-th on:
\* [raised, val], val being region._chunks
RECURSIVE from_file_chunks(_, _, _, _, _)
\* from_file that raises on an unsupported compression format
from_file_chunks_Abort(chunks, locs, i, path, files) ==
    IF i > Len(locs) THEN Return(chunks)
    ELSE LET offset == locs[i][1]
             x      == locs[i][2]
             z      == locs[i][3]
             head   == file_read(files[path], offset, 5)
             rxz    == region_pos_from_path(path)
             cpath  == path_join(dirname(path), external_name(rxz, x, z))
             store(data) ==
                 from_file_chunks(
                     [chunks EXCEPT ![z + 1][x + 1] = <<"bytes", data>>],
                     locs, i + 1, path, files)
         IN  IF Len(head) # 5 THEN Raise("struct.error", None)
             ELSE IF head[5] % 128 # 2
                 THEN Raise("NotImplementedError", None)
             ELSE IF head[5] >= 128
                 THEN IF rxz = None THEN Raise("ValueError", None)
                      ELSE IF cpath \notin DOMAIN files
                          THEN Raise("FileNotFoundError", None)
                      ELSE store(files[cpath])
             ELSE store(file_read(files[path], offset + 5, Unsigned32(SubSeq(head, 1, 4))))

from_file_chunks(chunks, locs, i, path, files) ==
    IF i > Len(locs) THEN Return(chunks)
    ELSE LET offset == locs[i][1]
             x      == locs[i][2]
             z      == locs[i][3]
             head   == file_read(files[path], offset, 5)
             rxz    == region_pos_from_path(path)
             cpath  == path_join(dirname(path), external_name(rxz, x, z))
             store(data) ==
                 from_file_chunks(
                     [chunks EXCEPT ![z + 1][x + 1] = <<"bytes", data>>],
                     locs, i + 1, path, files)
         IN  IF Len(head) # 5 THEN Raise("struct.error", None)
             ELSE IF head[5] % 128 # 2
                 THEN from_file_chunks(chunks, locs, i + 1, path, files)
             ELSE IF head[5] >= 128
                 THEN IF rxz = None THEN Raise("ValueError", None)
                      ELSE IF cpath \notin DOMAIN files
                          THEN Raise("FileNotFoundError", None)
                      ELSE store(files[cpath])
             ELSE store(file_read(files[path], offset + 5, Unsigned32(SubSeq(head, 1, 4))))

\* some header entry cannot be read whole: struct.unpack('>I', rflie.read(4))
\* raises struct.error
header_short(rfile) ==
    \E i \in 0..(CHUNKS_WIDTH * CHUNKS_WIDTH - 1) : Len(header_entry(rfile, i)) # 4

Region_from_file_Raising(path, files) ==
    IF path \notin DOMAIN files THEN Raise("FileNotFoundError", None)
    ELSE IF header_short(files[path]) THEN Raise("struct.error", None)
    ELSE from_file_chunks(Region_init,
                          sorted_locations(chunk_locations(files[path])), 1, path, files)

\* Region.from_file(path): [raised, val], val being the _chunks of the
\* Region returned
Region_from_file(path, files) ==
    IF path \notin DOMAIN files THEN Raise("FileNotFoundError", None)
    ELSE IF header_short(files[path]) THEN Return(Region_init)
    ELSE from_file_chunks(Region_init,
                          sorted_locations(chunk_locations(files[path])), 1, path, files)


\* index i of a Python list of n items is in range; its place counted from 1
index_ok(i, n) == i >= -n /\ i < n
index_pos(i, n) == IF i < 0 THEN i + n + 1 ELSE i + 1

\* what a call on the Region gives: the exception, the value returned, the
\* _chunks afterwards and whether zlib.decompress was called
RegionResult(e, v, chunks, inflated) ==
    [raised |-> e, val |-> v, chunks |-> chunks, inflated |-> inflated]

\* get_chunk that forgets the bytes of a chunk that fails to decompress or
\* decode
Region_get_chunk_DropOnError(chunks, x, z, id) ==
    IF ~index_ok(z, CHUNKS_WIDTH) \/ ~index_ok(x, CHUNKS_WIDTH)
    THEN RegionResult("IndexError", None, chunks, FALSE)
    ELSE Bind(chunks[index_pos(z, CHUNKS_WIDTH)][index_pos(x, CHUNKS_WIDTH)], LAMBDA data :
        LET dropped == [chunks EXCEPT ![index_pos(z, CHUNKS_WIDTH)]
                                       [index_pos(x, CHUNKS_WIDTH)] = None]
        IN
        IF data[1] # "bytes" THEN RegionResult("", data, chunks, FALSE)
        ELSE Bind(zlib_decompress(data[2]), LAMBDA d :
            IF d.raised # "" THEN RegionResult(d.raised, None, dropped, TRUE)
            ELSE CASE SubSeq(d.val, 1, 2) # GzipMagic ->
                Bind(read_nbt_file(d.val), LAMBDA r :
                    IF r.raised # "" THEN RegionResult(r.raised, None, dropped, TRUE)
                    ELSE RegionResult("", <<"Chunk", id, r.val[1]>>,
                             [chunks EXCEPT ![index_pos(z, CHUNKS_WIDTH)]
                                                [index_pos(x, CHUNKS_WIDTH)] =
                                 <<"Chunk", id, r.val[1]>>],
                             TRUE))))

Region_get_chunk_NoStore(chunks, x, z, id) ==
    IF ~index_ok(z, CHUNKS_WIDTH) \/ ~index_ok(x, CHUNKS_WIDTH)
    THEN RegionResult("IndexError", None, chunks, FALSE)
    ELSE Bind(chunks[index_pos(z, CHUNKS_WIDTH)][index_pos(x, CHUNKS_WIDTH)], LAMBDA data :
        IF data[1] # "bytes" THEN RegionResult("", data, chunks, FALSE)
        ELSE Bind(zlib_decompress(data[2]), LAMBDA d :
            IF d.raised # "" THEN RegionResult(d.raised, None, chunks, TRUE)
            ELSE CASE SubSeq(d.val, 1, 2) # GzipMagic ->
                Bind(read_nbt_file(d.val), LAMBDA r :
                    IF r.raised # "" THEN RegionResult(r.raised, None, chunks, TRUE)
                    ELSE RegionResult("", <<"Chunk", id, r.val[1]>>, chunks, TRUE))))

\* Region.get_chunk(self, x, z) for ints x and z; id is what tells a new
\* Chunk object from those that exist
Region_get_chunk(chunks, x, z, id) ==
    IF ~index_ok(z, CHUNKS_WIDTH) \/ ~index_ok(x, CHUNKS_WIDTH)
    THEN RegionResult("IndexError", None, chunks, FALSE)
    ELSE Bind(chunks[index_pos(z, CHUNKS_WIDTH)][index_pos(x, CHUNKS_WIDTH)], LAMBDA data :
        IF data[1] # "bytes" THEN RegionResult("", data, chunks, FALSE)
        ELSE Bind(zlib_decompress(data[2]), LAMBDA d :
            IF d.raised # "" THEN RegionResult(d.raised, None, chunks, TRUE)
            ELSE CASE SubSeq(d.val, 1, 2) # GzipMagic ->
                Bind(read_nbt_file(d.val), LAMBDA r :
                    IF r.raised # "" THEN RegionResult(r.raised, None, chunks, TRUE)
                    ELSE RegionResult("", <<"Chunk", id, r.val[1]>>,
                             [chunks EXCEPT ![index_pos(z, CHUNKS_WIDTH)]
                                                [index_pos(x, CHUNKS_WIDTH)] =
                                 <<"Chunk", id, r.val[1]>>],
                             TRUE))))

iter_coordinate_ColumnMajor(k) == <<k \div CHUNKS_WIDTH, k % CHUNKS_WIDTH>>

\* the (x, z) of the k-th turn, from 0, of the loops of iter_nonempty:
\* for z in range(CHUNKS_WIDTH): for x in range(CHUNKS_WIDTH)
iter_coordinate(k) == <<k % CHUNKS_WIDTH, k \div CHUNKS_WIDTH>>

\* the entry that the k-th turn looks at
iter_entry(chunks, k) == chunks[iter_coordinate(k)[2] + 1][iter_coordinate(k)[1] + 1]

\* next() of the generator of iter_nonempty that has done pos turns: the
\* turns at an entry that is None change nothing and yield nothing; the
\* first other turn calls get_chunk and yields, or raises.  turn is the
\* number of turns done afterwards.
iter_nonempty_next(chunks, pos, id) ==
    LET turns == {k \in pos..(CHUNKS_WIDTH * CHUNKS_WIDTH - 1) : iter_entry(chunks, k) # None}
        k     == CHOOSE t \in turns : \A u \in turns : t <= u
    IN  IF turns = {}
        THEN [raised |-> "StopIteration", val |-> None, chunks |-> chunks,
              inflated |-> FALSE, turn |-> CHUNKS_WIDTH * CHUNKS_WIDTH]
        ELSE Bind(Region_get_chunk(chunks, iter_coordinate(k)[1], iter_coordinate(k)[2], id),
                  LAMBDA r :
                      [raised |-> r.raised, val |-> r.val, chunks |-> r.chunks,
                       inflated |-> r.inflated,
                       turn |-> IF r.raised = "" THEN k + 1
                                ELSE CHUNKS_WIDTH * CHUNKS_WIDTH])


(***************************************************************************)
(* The region reader as a state machine: a region file (and at most one    *)
(* external chunk file) is stored, possibly cut short, and loaded with     *)
(* Region.from_file; the program then calls get_chunk and consumes the     *)
(* generator of iter_nonempty in any order.  tag is the Region:            *)
(*   _chunks   self._chunks                                                *)
(*   objects   how many Chunk objects were created                         *)
(*   inflated  how many times zlib.decompress was called                   *)
(*   gen       the generator of the last iter_nonempty() call: whether     *)
(*             there is one, how many turns of its loops are done, and     *)
(*             what it yielded                                             *)
(* file is the function from the paths that exist to their bytes.          *)
(***************************************************************************)
\* get_chunk and next are called while zlib.decompress was called fewer
\* times than this
MaxInflated == 4

\* the NBT of chunk n, and that zlib-compressed
ChunkNbt(n) ==
    write_nbt_file(MkTag("TagCompound", <<<<PyStr(<<107>>), MkTag("TagByte", Big(n))>>>>),
                   PyStr(<<>>)).out
ChunkZlib(n) == zlib_compress(ChunkNbt(n))

\* a chunk of a region file: header entry z * 32 + x names the sector where
\* its length, its compression byte and its data are
Place(x, z, sector, compression, data) ==
    [x |-> x, z |-> z, sector |-> sector, compression |-> compression, data |-> data]

\* the region files stored: their chunks
RegionLayouts ==
    << <<>>,
       <<Place(0, 0, 2, 2, ChunkZlib(1))>>,
       <<Place(0, 0, 3, 2, ChunkZlib(1)), Place(1, 0, 2, 2, ChunkZlib(2))>>,
       <<Place(1, 0, 3, 2, ChunkZlib(1)), Place(0, 1, 2, 2, ChunkZlib(2)),
         Place(31, 31, 2, 2, ChunkZlib(2))>>,
       <<Place(0, 0, 2, 1, ChunkZlib(1)), Place(1, 0, 3, 2, ChunkZlib(2))>>,
       <<Place(31, 31, 2, 3, ChunkNbt(1))>>,
       <<Place(0, 0, 2, 130, <<>>)>>,
       <<Place(0, 0, 2, 2, <<122, 122, 122, 122>>), Place(1, 0, 3, 2, ChunkZlib(1))>>,
       <<Place(0, 1, 2, 2, zlib_compress(<<1, 0, 0>>))>> >>

RegionPath == Text(<<"w", "/", "r", ".", "1", ".", "-", "1", ".", "m", "c", "a">>)
OtherPath == Text(<<"r", "e", "g", "i", "o", "n", ".", "d", "a", "t">>)
ExternalPath == Text(<<"w", "/", "c", ".", "3", "2", ".", "-", "3", "2", ".", "m", "c", "c">>)

\* what is stored: <<the path of the region file, which layout it has,
\* whether the external chunk file is there>>
RegionStores ==
    {<<RegionPath, i, FALSE>> : i \in 1..Len(RegionLayouts)}
    \cup {<<RegionPath, 7, TRUE>>, <<OtherPath, 7, TRUE>>, <<OtherPath, 3, FALSE>>}

\* the lengths that a stored region file is cut to
CutLens == {0, 3, 4, 4095, 4096, 8197, 12288}

\* the four bytes of struct.pack('>I', n), n < 2^31
Pack32(n) == <<n \div 16777216, (n \div 65536) % 256, (n \div 256) % 256, n % 256>>

\* the header of a region file
HeaderBytes(layout) ==
    Flatten([e \in 1..(CHUNKS_WIDTH * CHUNKS_WIDTH) |->
        IF \E p \in 1..Len(layout) : layout[p].z * CHUNKS_WIDTH + layout[p].x = e - 1
        THEN LET p == CHOOSE p \in 1..Len(layout) :
                          layout[p].z * CHUNKS_WIDTH + layout[p].x = e - 1
             IN  <<0, layout[p].sector \div 256, layout[p].sector % 256, 1>>
        ELSE <<0, 0, 0, 0>>])

\* sector s of a region file
SectorBytes(layout, s) ==
    IF \E p \in 1..Len(layout) : layout[p].sector = s
    THEN LET p == CHOOSE p \in 1..Len(layout) : layout[p].sector = s
             payload == Pack32(Len(layout[p].data) + 1) \o <<layout[p].compression>>
                            \o layout[p].data
         IN  payload \o Zeros(SectorSize - Len(payload))
    ELSE Zeros(SectorSize)

\* the bytes of a region file: the header, the timestamps, two sectors
RegionBytes(layout) ==
    HeaderBytes(layout) \o Zeros(SectorSize) \o SectorBytes(layout, 2)
        \o SectorBytes(layout, 3)

RegionInit ==
    /\ tag = None /\ op = "start" /\ arg = None /\ raised = "" /\ ret = None
    /\ file = <<>>

\* the files are written
RegionStore(store) ==
    /\ op = "start"
    /\ file' = [p \in {store[1]} \cup (IF store[3] THEN {ExternalPath} ELSE {}) |->
                   IF p = store[1] THEN RegionBytes(RegionLayouts[store[2]])
                   ELSE ChunkZlib(1)]
    /\ op' = "store" /\ arg' = store[1]
    /\ UNCHANGED <<tag, raised, ret>>

\* the region file loses all but its first n bytes
RegionCut(n) ==
    /\ op = "store" /\ n < Len(file[arg])
    /\ file' = [file EXCEPT ![arg] = SubSeq(@, 1, n)]
    /\ op' = "cut"
    /\ UNCHANGED <<tag, arg, raised, ret>>

\* tag = Region.from_file(path)
RegionFromFile ==
    /\ op \in {"store", "cut"}
    /\ LET r == Region_from_file(arg, file)
       IN  /\ raised' = r.raised
           /\ tag' = IF r.raised # "" THEN None
                     ELSE [_chunks |-> r.val, objects |-> 0, inflated |-> 0,
                           gen |-> [live |-> FALSE, turn |-> 0, out |-> <<>>]]
    /\ op' = "from_file"
    /\ UNCHANGED <<arg, ret, file>>

\* a Region was loaded and the calls may go on
RegionLoaded ==
    /\ op \in {"from_file", "get_chunk", "iter_nonempty", "next"}
    /\ op = "from_file" => raised = ""
    /\ tag.inflated < MaxInflated

\* ret = tag.get_chunk(x, z)
RegionGetChunk(x, z) ==
    /\ RegionLoaded
    /\ LET r == Region_get_chunk(tag._chunks, x, z, tag.objects + 1)
       IN  /\ raised' = r.raised /\ ret' = r.val
           /\ tag' = [tag EXCEPT
                         !._chunks = r.chunks,
                         !.objects = IF r.val # None /\ r.val \notin
                                          {tag._chunks[j][i] : i, j \in 1..CHUNKS_WIDTH}
                                     THEN @ + 1 ELSE @,
                         !.inflated = IF r.inflated THEN @ + 1 ELSE @]
    /\ op' = "get_chunk" /\ arg' = <<x, z>>
    /\ UNCHANGED file

\* the generator of tag.iter_nonempty() is made; none of its code runs yet
RegionIter ==
    /\ RegionLoaded
    /\ tag' = [tag EXCEPT !.gen = [live |-> TRUE, turn |-> 0, out |-> <<>>]]
    /\ op' = "iter_nonempty" /\ arg' = None /\ raised' = "" /\ ret' = None
    /\ UNCHANGED file

\* ret = next(generator)
RegionIterNext ==
    /\ RegionLoaded /\ tag.gen.live
    /\ LET r == iter_nonempty_next(tag._chunks, tag.gen.turn, tag.objects + 1)
       IN  /\ raised' = r.raised /\ ret' = r.val
           /\ tag' = [tag EXCEPT
                         !._chunks = r.chunks,
                         !.objects = IF r.val # None /\ r.val \notin
                                          {tag._chunks[j][i] : i, j \in 1..CHUNKS_WIDTH}
                                     THEN @ + 1 ELSE @,
                         !.inflated = IF r.inflated THEN @ + 1 ELSE @,
                         !.gen = [live |-> TRUE, turn |-> r.turn,
                                  out |-> IF r.raised = "" THEN Append(@.out, r.val)
                                          ELSE @.out]]
    /\ op' = "next" /\ arg' = None
    /\ UNCHANGED file

\* the coordinates that get_chunk is called with
RegionCoordinates == {<<0, 0>>, <<1, 0>>, <<0, 1>>, <<31, 31>>, <<-1, -1>>, <<32, 0>>}

RegionNext ==
    \/ \E store \in RegionStores : RegionStore(store)
    \/ \E n \in CutLens : RegionCut(n)
    \/ RegionFromFile
    \/ \E c \in RegionCoordinates : RegionGetChunk(c[1], c[2])
    \/ RegionIter
    \/ RegionIterNext

SpecRegion == RegionInit /\ [][RegionNext]_vars


\* the size of the header of a region file
HeaderSize == 4 * CHUNKS_WIDTH * CHUNKS_WIDTH

(* C17: Region truncated header.  Region.from_file on a file that ends
   inside the header (an empty file included, and whatever the entries read
   before the end) raises nothing and returns a Region all of whose entries
   are absent. *)
C17_TruncatedHeader ==
    (op = "from_file" /\ Len(file[arg]) < HeaderSize) =>
        (raised = "" /\ tag._chunks = Region_init)

C17_Witness ==
    /\ op = "from_file" /\ Len(file[arg]) = HeaderSize - 1
    /\ SubSeq(file[arg], 1, 4) # <<0, 0, 0, 0>>
    /\ raised = "" /\ tag._chunks = Region_init

\* a call on a loaded Region was the last thing done
RegionCalled == op \in {"get_chunk", "iter_nonempty", "next"}

(* C18: Region chunk cache.  For x and z in 0..31, get_chunk(x, z) on an
   absent entry returns None and changes nothing; on an entry that holds a
   Chunk it returns that same Chunk object and changes nothing (nothing is
   decompressed, no Chunk is created); on an entry that holds bytes, when it
   returns, zlib.decompress was called once and the new Chunk of the tag
   decoded from those bytes is returned and is the entry afterwards.  No
   call ever changes an entry that holds a Chunk. *)
C18_ChunkCache ==
    [][/\ (op' = "get_chunk" /\ arg'[1] \in 0..(CHUNKS_WIDTH - 1)
              /\ arg'[2] \in 0..(CHUNKS_WIDTH - 1)) =>
            LET before == tag._chunks[arg'[2] + 1][arg'[1] + 1]
                after  == tag'._chunks[arg'[2] + 1][arg'[1] + 1]
            IN  /\ before = None => (raised' = "" /\ ret' = None /\ tag' = tag)
                /\ before[1] = "Chunk" => (raised' = "" /\ ret' = before /\ tag' = tag)
                /\ (before[1] = "bytes" /\ raised' = "") =>
                       /\ ret' = <<"Chunk", tag.objects + 1,
                                   read_nbt_file(zlib_decompress(before[2]).val).val[1]>>
                       /\ after = ret'
                       /\ tag'.objects = tag.objects + 1
                       /\ tag'.inflated = tag.inflated + 1
       /\ (RegionCalled /\ RegionCalled') =>
            \A x, z \in 1..CHUNKS_WIDTH :
                tag._chunks[z][x][1] = "Chunk" => tag'._chunks[z][x] = tag._chunks[z][x]
      ]_vars

C18_Witness ==
    /\ op = "get_chunk" /\ raised = "" /\ arg = <<1, 0>>
    /\ ret[1] = "Chunk" /\ ret[2] = 1 /\ tag.objects = 2 /\ tag.inflated = 2

\* the header indexes z * CHUNKS_WIDTH + x of the entries that are not None
PresentIndexes(chunks) ==
    {k \in 0..(CHUNKS_WIDTH * CHUNKS_WIDTH - 1) :
        chunks[(k \div CHUNKS_WIDTH) + 1][(k % CHUNKS_WIDTH) + 1] # None}

\* the numbers of S in ascending order
Ascending(S) ==
    [i \in 1..Cardinality(S) |-> CHOOSE k \in S : Cardinality({j \in S : j < k}) = i - 1]

(* C19: Region iteration order.  While no chunk has failed to decompress or
   decode, what the generator of iter_nonempty has yielded is, in ascending
   order of the header index z * 32 + x, the Chunk of each of the first
   present entries, each once and no absent one; when the generator is
   exhausted that is every present entry.  This holds whatever sectors the
   chunks are in and whatever get_chunk calls came before or between. *)
C19_IterationOrder ==
    (RegionCalled /\ tag.gen.live /\ tag.inflated = tag.objects) =>
        LET order == Ascending(PresentIndexes(tag._chunks))
            out   == tag.gen.out
        IN  /\ Len(out) <= Len(order)
            /\ \A i \in 1..Len(out) :
                   /\ out[i][1] = "Chunk"
                   /\ out[i] = tag._chunks[(order[i] \div CHUNKS_WIDTH) + 1]
                                          [(order[i] % CHUNKS_WIDTH) + 1]
            /\ (op = "next" /\ raised = "") => ret = out[Len(out)]
            /\ (op = "next" /\ raised = "StopIteration") => Len(out) = Len(order)

C19_Witness ==
    /\ op = "next" /\ raised = "StopIteration" /\ tag.inflated = tag.objects
    /\ Len(tag.gen.out) = 3 /\ tag.gen.out[2][2] < tag.gen.out[1][2]
    /\ tag._chunks[1][2] = tag.gen.out[1] /\ tag._chunks[2][1] = tag.gen.out[2]

(***************************************************************************)
(* File handles of read_nbt_file and write_nbt_file.  A handle is          *)
(* [kind, closed]: kind "file" is a file the library opened from a path,   *)
(* "object" a file-like object of the caller, "GzipFile" the wrapper that  *)
(* gzip.open makes around either.  The content of a file is                *)
(* <<"bytes", b>> for the bytes b, or <<"gzip", b>> for a complete gzip    *)
(* member that holds b (the compressed bytes are not spelled out), or      *)
(* None for a path that names no file.  A call returns [raised, val,       *)
(* store, handles]: the content afterwards and every handle it dealt with. *)
(***************************************************************************)
Handle(kind, closed) == [kind |-> kind, closed |-> closed]

\* file_handle.close() in a finally clause, file_handle being the i-th
\* handle, 0 for None; closing a GzipFile made around a file object leaves
\* that object open
close_handle(handles, i) ==
    IF i = 0 THEN handles ELSE [handles EXCEPT ![i].closed = TRUE]

HandleResult(e, v, store, handles) ==
    [raised |-> e, val |-> v, store |-> store, handles |-> handles]

\* isinstance(file, (str, PurePath)) for the targets of a call: "path" names
\* a file (or a place for one), "nodir" a place in a directory that does not
\* exist; "BytesIO" and "fileobj" are objects of the caller, in memory and
\* on disk
is_path(target) == target \in {"path", "nodir"}

\* what gzip.open(file, 'rb') gives to read: the uncompressed stream, or the
\* exception of the first read, for a complete member and for a file that
\* ends in the ten bytes of the header or names another method than deflate
gzip_read(content) ==
    CASE content[1] = "gzip" -> Return(content[2])
      [] content[1] = "bytes" /\ Len(content[2]) < 10 -> Raise("EOFError", None)
      [] content[1] = "bytes" /\ Len(content[2]) >= 10 /\ content[2][3] # 8 ->
            Raise("BadGzipFile", None)

\* gz_magic == b'\x1f\x8b'
has_gz_magic(content) ==
    \/ content[1] = "gzip"
    \/ Len(content[2]) >= 2 /\ SubSeq(content[2], 1, 2) = GzipMagic

\* read_nbt_file(file, with_name=True): target tells what file is, store
\* what it holds
read_nbt_file_call(target, store) ==
    IF is_path(target) /\ (target = "nodir" \/ store = None)
        THEN HandleResult("FileNotFoundError", None, store, <<>>)
    ELSE LET content == IF store = None THEN <<"bytes", <<>>>> ELSE store
             opened == <<Handle(IF is_path(target) THEN "file" ELSE "object", FALSE)>>
             file_handle == IF is_path(target) THEN 1 ELSE 0
         IN  IF target # "BytesIO" /\ content[1] = "bytes" /\ Len(content[2]) < 2
                 THEN HandleResult("OSError", None, store, close_handle(opened, file_handle))
             ELSE IF has_gz_magic(content)
                 THEN Bind(gzip_read(content), LAMBDA z :
                          Bind(IF z.raised # "" THEN z ELSE read_nbt_file(z.val), LAMBDA r :
                              HandleResult(r.raised, r.val, store,
                                  close_handle(Append(opened, Handle("GzipFile", FALSE)),
                                               file_handle))))
             ELSE Bind(read_nbt_file(content[2]), LAMBDA r :
                      HandleResult(r.raised, r.val, store, close_handle(opened, file_handle)))

\* write_nbt_file(file, root, root_name=root_name, compress=compress): target
\* tells what file is, an object being empty before the call, and store is
\* what the path holds before
write_nbt_file_call(target, root, root_name, compress, store) ==
    LET given == IF is_path(target) THEN <<>> ELSE <<Handle("object", FALSE)>>
        before == IF is_path(target) THEN store ELSE <<"bytes", <<>>>>
    IN  IF ~IsTag(root) THEN HandleResult("NbtInvalidOperation", None, before, given)
        ELSE IF target = "nodir" THEN HandleResult("FileNotFoundError", None, before, <<>>)
        ELSE LET opened == IF is_path(target) THEN <<Handle("file", FALSE)>> ELSE given
                 wrapped == IF compress THEN Append(opened, Handle("GzipFile", FALSE))
                            ELSE opened
                 file_handle == IF compress THEN Len(wrapped)
                                ELSE IF is_path(target) THEN 1 ELSE 0
             IN  Bind(write_nbt_file(root, root_name), LAMBDA w :
                     HandleResult(w.raised, None,
                                  <<IF compress THEN "gzip" ELSE "bytes", w.out>>,
                                  close_handle(wrapped, file_handle)))

\* the roots handed to write_nbt_file: three tags and an int
HandleRoots ==
    {MkTag("TagCompound", <<>>),
     MkTag("TagCompound", <<<<PyStr(<<107>>), MkTag("TagByte", Big(1))>>>>),
     MkTag("TagShort", Big(258)),
     PyInt(Big(5))}

\* the root names: a str and an int
HandleNames == {PyStr(<<110>>), PyInt(Big(5))}

\* files that no write of the library made: empty, one byte, an invalid base
\* tag, a compound cut short, and three broken gzip files
HandleContents ==
    {<<>>, <<10>>, <<13, 0, 0>>, <<10, 0, 0, 1, 0>>,
     GzipMagic, <<31, 139, 8>>, <<31, 139, 0, 0, 0, 0, 0, 0, 0, 0>>}

HandleTargets == {"path", "nodir", "BytesIO", "fileobj"}

HandleInit ==
    /\ tag = None /\ op = "start" /\ arg = None /\ raised = "" /\ ret = None
    /\ file = [store |-> None, handles |-> <<>>]

\* the caller picks the root to write
HandleRoot(root) ==
    /\ op = "start"
    /\ tag' = root /\ op' = "root" /\ arg' = None
    /\ UNCHANGED <<raised, ret, file>>

\* the file at the path gets a content from elsewhere
HandleStore(b) ==
    /\ op = "start"
    /\ file' = [store |-> <<"bytes", b>>, handles |-> <<>>]
    /\ op' = "store" /\ arg' = None
    /\ UNCHANGED <<tag, raised, ret>>

\* write_nbt_file(target, tag, root_name=root_name, compress=compress)
HandleWrite(target, root_name, compress) ==
    /\ op = "root"
    /\ LET r == write_nbt_file_call(target, tag, root_name, compress, file.store)
       IN  /\ raised' = r.raised
           /\ file' = [store |-> r.store, handles |-> r.handles]
    /\ op' = "write_nbt_file" /\ arg' = <<target, root_name, compress>>
    /\ UNCHANGED <<tag, ret>>

\* tag, name = read_nbt_file(target, with_name=True), an object holding what
\* the last write or store left
HandleRead(target) ==
    /\ op \in {"write_nbt_file", "store"}
    /\ LET r == read_nbt_file_call(target, file.store)
       IN  /\ raised' = r.raised
           /\ tag' = IF r.raised = "" THEN r.val[1] ELSE tag
           /\ ret' = IF r.raised = "" THEN r.val[2] ELSE None
           /\ file' = [store |-> r.store, handles |-> r.handles]
    /\ op' = "read_nbt_file" /\ arg' = <<target>>

HandleNext ==
    \/ \E root \in HandleRoots : HandleRoot(root)
    \/ \E b \in HandleContents : HandleStore(b)
    \/ \E target \in HandleTargets, root_name \in HandleNames, compress \in BOOLEAN :
          HandleWrite(target, root_name, compress)
    \/ \E target \in HandleTargets : HandleRead(target)

SpecHandle == HandleInit /\ [][HandleNext]_vars

\* a call of read_nbt_file or write_nbt_file has returned or raised
HandleCalled == op \in {"write_nbt_file", "read_nbt_file"}

\* C20: when read_nbt_file or write_nbt_file returns or raises, every file it
\* opened from a path is closed, the one under a gzip wrapper too, and no
\* file-like object of the caller is closed
C20_HandleRelease ==
    HandleCalled =>
        \A i \in 1..Len(file.handles) :
            /\ file.handles[i].kind = "file" => file.handles[i].closed
            /\ file.handles[i].kind = "object" => ~file.handles[i].closed

(***************************************************************************)
(* Quoting as a state machine: the program picks a str, quotes it as the   *)
(* printer does for a TagString or for a key of a compound, and reads the  *)
(* text back as the parser does when the text starts with a quote.         *)
(***************************************************************************)
\* the longest str that gets quoted
MaxQuoteLen == 3

\* an ordinary character, the double quote, the single quote, the backslash
QuoteAlphabet == {Ord("a"), Ord("\""), Ord("'"), Ord("\\")}

\* the strs over the alphabet, the empty one included
QuoteStrs == UNION {[1..n -> QuoteAlphabet] : n \in 0..MaxQuoteLen}

QuoteInit ==
    /\ tag = None /\ op = "start" /\ arg = None /\ raised = "" /\ ret = None
    /\ file = <<>>

\* tag = TagString(s)
QuotePick(s) ==
    /\ op = "start"
    /\ LET r == Scalar_init("TagString", PyStr(s), None)
       IN  raised' = r.raised /\ tag' = MkTag("TagString", r.val)
    /\ op' = "pick" /\ arg' = None
    /\ UNCHANGED <<ret, file>>

\* file = _quote_string(tag.value), as to_snbt(tag) does
QuoteString ==
    /\ op = "pick"
    /\ file' = to_snbt(tag, FALSE)
    /\ op' = "quote_string" /\ arg' = None
    /\ UNCHANGED <<tag, raised, ret>>

\* file = _quote_compound_key(tag.value)
QuoteKey ==
    /\ op = "pick"
    /\ file' = quote_compound_key(Value(tag))
    /\ op' = "quote_compound_key" /\ arg' = None
    /\ UNCHANGED <<tag, raised, ret>>

\* rest, ret = _parse_quoted_string(file) for a text that starts with a
\* quote; arg tells what was left unread
QuoteParse ==
    /\ op \in {"quote_string", "quote_compound_key"}
    /\ file # <<>> /\ file[1] \in {Ord("\""), Ord("'")}
    /\ LET r == parse_quoted_string(file)
       IN  /\ raised' = r.raised
           /\ ret' = IF r.raised = "" THEN PyStr(r.val) ELSE None
           /\ arg' = <<"unread", r.rest>>
    /\ op' = "parse_quoted_string"
    /\ UNCHANGED <<tag, file>>

QuoteNext ==
    \/ \E s \in QuoteStrs : QuotePick(s)
    \/ QuoteString
    \/ QuoteKey
    \/ QuoteParse

SpecQuote == QuoteInit /\ [][QuoteNext]_vars

(* C21: string quoting inverse.  For every str s over an ordinary
   character, the double quote, the single quote and the backslash, the
   empty str included, reading the text that the printer emits for s as a
   quoted string or as a quoted key raises nothing, leaves nothing unread
   and returns s. *)
C21_QuotingInverse ==
    op = "parse_quoted_string" =>
        /\ raised = ""
        /\ arg = <<"unread", <<>>>>
        /\ ret = PyStr(Value(tag))

(***************************************************************************)
(* SNBT literals as a state machine: the program puts a list literal       *)
(* together from the texts of its elements, or a number token from its     *)
(* parts, and parses it.                                                   *)
(***************************************************************************)
\* the most elements of a list literal
MaxLiteralItems == 3

\* texts of elements: two TagInt, a TagByte, a TagString, two TagList of
\* different element kinds, a TagCompound, a TagIntArray
ElementTexts ==
    {Text(<<"1">>), Text(<<" ", "-", "2", " ">>), Text(<<"2", "b">>),
     Text(<<"\"", "p", ",", "]", "\"">>),
     Text(<<"[", "]">>), Text(<<"[", "1", "b", "]">>),
     Text(<<"{", "}">>), Text(<<"[", "I", ";", "1", "]">>)}

\* file = '[' + ','.join(elems) + ']'
SnbtList(elems) ==
    /\ op = "start"
    /\ file' = Text(<<"[">>) \o join(Text(<<",">>), elems) \o Text(<<"]">>)
    /\ op' = "text" /\ arg' = <<"list", elems>>
    /\ UNCHANGED <<tag, raised, ret>>

\* magnitudes of integer literals: around 2^7, 2^8, 2^15, 2^16, 2^31, 2^32,
\* 2^63, 2^64 and 2^128, and one of a digit more than int() takes
LiteralInts ==
    {DigitChars(<<0>>), DigitChars(<<7>>), DigitChars(<<1, 2, 7>>),
     DigitChars(<<1, 2, 8>>), DigitChars(<<2, 5, 5>>), DigitChars(<<2, 5, 6>>),
     DigitChars(<<3, 2, 7, 6, 7>>), DigitChars(<<3, 2, 7, 6, 8>>),
     DigitChars(<<6, 5, 5, 3, 6>>),
     DigitChars(<<2, 1, 4, 7, 4, 8, 3, 6, 4, 7>>),
     DigitChars(<<2, 1, 4, 7, 4, 8, 3, 6, 4, 8>>),
     DigitChars(<<4, 2, 9, 4, 9, 6, 7, 2, 9, 5>>),
     DigitChars(<<4, 2, 9, 4, 9, 6, 7, 2, 9, 8>>),
     DigitChars(<<9, 2, 2, 3, 3, 7, 2, 0, 3, 6, 8, 5, 4, 7, 7, 5, 8, 0, 7>>),
     DigitChars(<<9, 2, 2, 3, 3, 7, 2, 0, 3, 6, 8, 5, 4, 7, 7, 5, 8, 0, 8>>),
     DigitChars(<<1, 8, 4, 4, 6, 7, 4, 4, 0, 7, 3, 7, 0, 9, 5, 5, 1, 6, 1, 7>>),
     DigitChars(<<3, 4, 0, 2, 8, 2, 3, 6, 6, 9, 2, 0, 9, 3, 8, 4, 6, 3, 4, 6,
                  3, 3, 7, 4, 6, 0, 7, 4, 3, 1, 7, 6, 8, 2, 1, 1, 4, 5, 7>>),
     [i \in 1..(IntMaxStrDigits + 1) |-> Ord("1")]}

LiteralSuffixes == {<<>>, Text(<<"b">>), Text(<<"s">>), Text(<<"l">>)}

LiteralNext ==
    \/ /\ op = "start"
       /\ \E n \in 0..MaxLiteralItems : \E elems \in [1..n -> ElementTexts] :
             SnbtList(elems)
    \/ \E sign \in TokSigns, ip \in LiteralInts, suf \in LiteralSuffixes :
          SnbtToken(sign, ip, <<>>, <<>>, suf)
    \/ SnbtParse

SpecLiteral == SnbtInit /\ [][LiteralNext]_vars

\* a list literal was parsed; the values its elements parse to on their own
ListParsed == op = "parse" /\ arg[1] = "list"
ElementValues == [i \in 1..Len(arg[2]) |-> parse_snbt(arg[2][i]).val]

(* C22: SNBT list literal.  parse_snbt of '[' v1, ..., vn ']' returns a
   TagList whose element kind is the kind of v1 (TagInt for '[]') and whose
   elements are the values of v1 .. vn in order; when a later element is of
   another kind than the first, parse_snbt raises and returns no TagList. *)
C22_ListLiteral ==
    ListParsed =>
        IF \A i \in 1..Len(ElementValues) : Cls(ElementValues[i]) = Cls(ElementValues[1])
        THEN /\ raised = ""
             /\ tag = <<"TagList",
                        IF ElementValues = <<>> THEN "TagInt" ELSE Cls(ElementValues[1]),
                        ElementValues>>
        ELSE raised # "" /\ tag = None

C22_Witness ==
    /\ ListParsed /\ raised = ""
    /\ arg[2] = <<Text(<<"[", "]">>), Text(<<"[", "1", "b", "]">>), Text(<<"[", "]">>)>>
    /\ tag = <<"TagList", "TagList",
               <<<<"TagList", "TagInt", <<>>>>,
                 <<"TagList", "TagByte", <<MkTag("TagByte", Big(1))>>>>,
                 <<"TagList", "TagInt", <<>>>>>>>>

(* C23 as stated: an integer literal of any magnitude parses without an
   error to the tag of the kind its suffix names (TagInt for none), holding
   the value of the literal wrapped to the width of the kind. *)
C23_AsStated ==
    (TokenParsed /\ IntegerLiteral) =>
        /\ raised = ""
        /\ tag = MkTag(KindOf(TokSuffix),
                       WrapFormula(ExpectedInt, Pow2(width(KindOf(TokSuffix)))))

(* C23: SNBT integer magnitude.  An integer literal of at most 4300 digits
   (the most that int() converts) parses without an error to the tag of the
   kind its suffix names (TagInt for none), holding the value of the
   literal wrapped to the width of the kind, whatever its magnitude; a
   literal of more digits raises ValueError and gives no tag. *)
C23_IntegerMagnitude ==
    (TokenParsed /\ IntegerLiteral) =>
        IF Len(TokInt) <= IntMaxStrDigits
        THEN /\ raised = ""
             /\ tag = MkTag(KindOf(TokSuffix),
                            WrapFormula(ExpectedInt, Pow2(width(KindOf(TokSuffix)))))
        ELSE raised = "ValueError" /\ tag = None

\* the literal 4294967298 was parsed to TagInt(2)
C23_Witness ==
    /\ TokenParsed /\ IntegerLiteral /\ raised = ""
    /\ TokSign = <<>> /\ TokSuffix = <<>>
    /\ TokInt = DigitChars(<<4, 2, 9, 4, 9, 6, 7, 2, 9, 8>>)
    /\ tag = MkTag("TagInt", Big(2))

\* the tag t with the entries of every compound in it, at any depth, put in
\* the ascending order of their keys
RECURSIVE DeepSorted(_)
DeepSorted(t) ==
    CASE Cls(t) = "TagList" ->
            MkList(ItemCls(t), [i \in 1..Len(t[3]) |-> DeepSorted(t[3][i])])
      [] Cls(t) = "TagCompound" ->
            LET keys == sorted(TagCompound_iter(t))
            IN  MkTag("TagCompound",
                      [i \in 1..Len(keys) |->
                          <<keys[i], DeepSorted(DictGet(Value(t), keys[i]))>>])
      [] OTHER -> t

(* C24: printer key order.  to_snbt(T) emits the entries of every compound
   in the order the compound iterates them; to_snbt(T, sort=True) emits the
   keys of every compound, the root and every compound inside it at any
   depth, in ascending order: its text is that of T with every compound
   sorted. *)
C24_PrinterKeyOrder ==
    op = "print" =>
        file = to_snbt(IF arg = PyBool(TRUE) THEN DeepSorted(tag) ELSE tag, FALSE)

\* the ids of the array kinds
ArrayIds == {7, 11, 12}

\* the four bytes at f[i..i+3] are there and are a negative signed count
NegativeCountAt(f, i) == Len(f) >= i + 3 /\ f[i] >= 128

\* the decoder of the file f comes to an array payload of negative count: as
\* the root's payload, as the payload of the first element of a root list, or
\* as the payload of the first entry of a root compound
NegativeArrayCount(f) ==
    /\ Len(f) >= 3
    /\ LET p == 4 + Unsigned16(SubSeq(f, 2, 3))
       IN  \/ f[1] \in ArrayIds /\ NegativeCountAt(f, p)
           \/ /\ f[1] = 9 /\ Len(f) >= p + 4
              /\ f[p] \in ArrayIds
              /\ Count32(SubSeq(f, p + 1, p + 4)) > 0
              /\ NegativeCountAt(f, p + 5)
           \/ /\ f[1] = 10 /\ Len(f) >= p + 2
              /\ f[p] \in ArrayIds
              /\ NegativeCountAt(f, p + 3 + Unsigned16(SubSeq(f, p + 1, p + 2)))

(* C25: array negative count.  The read of a file whose decoding comes to a
   ByteArray, IntArray or LongArray payload with a negative 4-byte signed
   element count fails (array.fromfile raises ValueError), and returns no tag
   and no name. *)
C25_ArrayNegativeCount ==
    [][(op' = "read" /\ NegativeArrayCount(file))
          => (raised' = "ValueError" /\ tag' = tag /\ ret' = None)]_vars

\* the byte array [1, -2] written as a root, its count's first byte made 255,
\* was read
C25_Witness ==
    /\ op = "read" /\ file = <<7, 0, 0, 255, 0, 0, 2, 1, 254>>
    /\ raised = "ValueError" /\ ret = None

\* the file f is a root list as far as its element kind id and its count,
\* and its root name is ASCII
ListFile(f) ==
    /\ Len(f) >= 3 /\ f[1] = 9 /\ f[2] < 128
    /\ Len(f) >= 8 + Unsigned16(SubSeq(f, 2, 3))
    /\ \A i \in 4..(3 + Unsigned16(SubSeq(f, 2, 3))) : f[i] < 128

\* where the element kind id of the root list of f stands
ListKindAt(f) == 4 + Unsigned16(SubSeq(f, 2, 3))

(* C26: list decoding.  A list payload of element kind id 0 and a count
   <= 0 decodes to an empty TagList of element kind End (the class Tag); of
   an element kind id 1..12 and a count n >= 0, when it decodes, to a list of
   the declared kind that holds exactly n elements of that kind, read from
   their payloads alone (for the integer kinds: element i is the i-th group
   of as many bytes as the kind is wide); an element kind id outside 0..12
   raises NbtUnpackError.  TagList.write emits the declared element kind id,
   the count and the payloads of the elements. *)
C26_ListDecoding ==
    /\ (op = "read" /\ ListFile(file)) =>
          LET p == ListKindAt(file)
              k == file[p]
              c == Count32(SubSeq(file, p + 1, p + 4))
          IN  /\ k \notin 0..12 => raised = "NbtUnpackError"
              /\ (k = 0 /\ c <= 0) => (raised = "" /\ tag = MkList("Tag", <<>>))
              /\ (k \in 1..12 /\ c >= 0 /\ raised = "") =>
                    LET cls == tagid_class_mapping[k]
                    IN  /\ IsList(tag) /\ ItemCls(tag) = cls /\ Len(tag[3]) = c
                        /\ \A i \in 1..c : Cls(tag[3][i]) = cls
                        /\ k \in 1..4 =>
                              \A i \in 1..c :
                                 tag[3][i] =
                                    MkTag(cls, UnpackInt(SubSeq(file,
                                        p + 4 + (i - 1) * fmt_size(cls) + 1,
                                        p + 4 + i * fmt_size(cls))))
    /\ (op = "write" /\ raised = "" /\ IsList(tag)) =>
          LET p == 4 + Len(arg[2])
          IN  /\ file[p] = tagid(ItemCls(tag))
              /\ SubSeq(file, p + 1, p + 4) = <<0, 0, 0, Len(tag[3])>>
              /\ SubSeq(file, p + 5, Len(file)) =
                    Flatten([i \in 1..Len(tag[3]) |-> Tag_write(tag[3][i]).out])

\* a list of element kind 0 whose count is negative was read as the empty
\* list of kind End
C26_Witness ==
    /\ op = "read" /\ file = <<9, 0, 0, 0, 128, 0, 0, 0>>
    /\ raised = "" /\ tag = MkList("Tag", <<>>)

\* the path of the region file among the files stored
RegionFilePath == CHOOSE p \in DOMAIN file : p # ExternalPath

\* header entry k (k = z * 32 + x) of the region file f is not zero
EntrySet(f, k) == SubSeq(f, 4 * k + 1, 4 * k + 4) # <<0, 0, 0, 0>>

\* the compression descriptor of the chunk of header entry k: the fifth byte
\* at offset (entry >> 8) * 4096, or -1 when the file ends before it
DescriptorOf(f, k) ==
    LET offset == ((f[4 * k + 1] * 256 + f[4 * k + 2]) * 256 + f[4 * k + 3]) * SectorSize
    IN  IF Len(f) >= offset + 5 THEN f[offset + 5] ELSE -1

\* entry k is not zero and its descriptor has the low 7 bits 2 (zlib)
Declared(f, k) == EntrySet(f, k) /\ DescriptorOf(f, k) >= 0 /\ DescriptorOf(f, k) % 128 = 2

\* every chunk that the header of the region file names has its descriptor in
\* the file, and the external file of every external zlib chunk is there
\* under the name that the region file's name gives it (the one external
\* chunk stored is chunk (0, 0) of the region file RegionPath)
Loadable ==
    \A k \in 0..(CHUNKS_WIDTH * CHUNKS_WIDTH - 1) :
        EntrySet(file[RegionFilePath], k) =>
            /\ DescriptorOf(file[RegionFilePath], k) >= 0
            /\ (Declared(file[RegionFilePath], k)
                    /\ DescriptorOf(file[RegionFilePath], k) >= 128) =>
                  (k = 0 /\ RegionFilePath = RegionPath /\ ExternalPath \in DOMAIN file)

\* the entry of header index k in self._chunks
ChunkEntry(chunks, k) == chunks[(k \div CHUNKS_WIDTH) + 1][(k % CHUNKS_WIDTH) + 1]

\* C27 as stated: on every file with a complete header from_file returns and
\* the chunk of entry k is present exactly when the entry is not zero and its
\* descriptor has the low 7 bits 2, and an exhausted iter_nonempty has
\* yielded as many chunks as that
C27_AsStated ==
    /\ (op = "from_file" /\ Len(file[RegionFilePath]) >= HeaderSize) =>
          /\ raised = ""
          /\ \A k \in 0..(CHUNKS_WIDTH * CHUNKS_WIDTH - 1) :
                (ChunkEntry(tag._chunks, k) # None) <=> Declared(file[RegionFilePath], k)
    /\ (op = "next" /\ raised = "StopIteration"
            /\ Len(file[RegionFilePath]) >= HeaderSize) =>
          Len(tag.gen.out) =
              Cardinality({k \in 0..(CHUNKS_WIDTH * CHUNKS_WIDTH - 1) :
                              Declared(file[RegionFilePath], k)})

(* C27: region chunk presence.  On a file with a complete header in which
   every chunk named by the header has its descriptor inside the file and
   every external zlib chunk has its file, from_file returns and the chunk
   of entry k = z * 32 + x is present exactly when the entry is not zero and
   the descriptor at (entry >> 8) * 4096 has the low 7 bits 2; chunks of any
   other descriptor are absent and do not end the load.  On the other files
   with a complete header from_file raises.  When no chunk has failed to
   decompress or decode, an exhausted iter_nonempty has yielded as many
   chunks as there are present entries. *)
C27_ChunkPresence ==
    /\ (op = "from_file" /\ Len(file[RegionFilePath]) >= HeaderSize) =>
          IF Loadable
          THEN /\ raised = ""
               /\ \A k \in 0..(CHUNKS_WIDTH * CHUNKS_WIDTH - 1) :
                     (ChunkEntry(tag._chunks, k) # None)
                         <=> Declared(file[RegionFilePath], k)
          ELSE raised \in {"struct.error", "ValueError", "FileNotFoundError"}
    /\ (op = "next" /\ raised = "StopIteration" /\ tag.inflated = tag.objects
            /\ Len(file[RegionFilePath]) >= HeaderSize) =>
          Len(tag.gen.out) =
              Cardinality({k \in 0..(CHUNKS_WIDTH * CHUNKS_WIDTH - 1) :
                              Declared(file[RegionFilePath], k)})

\* a region whose chunk (0, 0) is gzip and whose chunk (1, 0) is zlib was
\* loaded and iterated to the end
C27_Witness ==
    /\ op = "next" /\ raised = "StopIteration" /\ tag.inflated = tag.objects
    /\ Len(file[RegionFilePath]) >= HeaderSize
    /\ EntrySet(file[RegionFilePath], 0) /\ DescriptorOf(file[RegionFilePath], 0) = 1
    /\ ChunkEntry(tag._chunks, 0) = None
    /\ Declared(file[RegionFilePath], 1) /\ Len(tag.gen.out) = 1

(* C30: region cache frame.  get_chunk(x, z) changes at most the entry
   (x, z) of the cache (for a negative x or z the entry that Python's
   indexing gives).  In every call on a loaded Region an absent entry stays
   absent, an entry that holds a Chunk keeps that Chunk, and an entry that
   holds bytes keeps those bytes or becomes a Chunk.  When get_chunk on an
   entry that holds bytes fails, the error of the decompression or of the
   decoding is raised and the cache is as before, the entry still holding
   the same bytes; the same call made again raises the same error. *)
C30_CacheFrame ==
    [][RegionCalled' =>
          /\ \A x, z \in 1..CHUNKS_WIDTH :
                LET before == tag._chunks[z][x]
                    after  == tag'._chunks[z][x]
                IN  /\ before = None => after = None
                    /\ before[1] = "Chunk" => after = before
                    /\ before[1] = "bytes" => (after = before \/ after[1] = "Chunk")
                    /\ (op' = "get_chunk" /\ after # before) =>
                          /\ index_ok(arg'[1], CHUNKS_WIDTH) /\ index_ok(arg'[2], CHUNKS_WIDTH)
                          /\ x = (arg'[1] % CHUNKS_WIDTH) + 1
                          /\ z = (arg'[2] % CHUNKS_WIDTH) + 1
          /\ (op' = "get_chunk" /\ raised' # "") =>
                /\ tag'._chunks = tag._chunks /\ ret' = None
                /\ IF index_ok(arg'[1], CHUNKS_WIDTH) /\ index_ok(arg'[2], CHUNKS_WIDTH)
                   THEN /\ tag._chunks[(arg'[2] % CHUNKS_WIDTH) + 1]
                                      [(arg'[1] % CHUNKS_WIDTH) + 1][1] = "bytes"
                        /\ raised' \in {"zlib.error", "struct.error", "IndexError",
                                        "NbtUnpackError"}
                   ELSE raised' = "IndexError"
          /\ (op = "get_chunk" /\ raised # "" /\ op' = "get_chunk" /\ arg' = arg) =>
                raised' = raised
      ]_vars

\* get_chunk(0, 0) on bytes that are no zlib data failed twice running, and
\* the entry still holds the bytes
C30_Witness ==
    /\ op = "get_chunk" /\ arg = <<0, 0>> /\ raised = "zlib.error"
    /\ tag.inflated = 2 /\ tag.objects = 0
    /\ tag._chunks[1][1] = <<"bytes", <<122, 122, 122, 122, 0>>>>

(* C28: whole-token numbers.  Whenever parse_snbt returns a tag for an
   unquoted token put together from a sign, digits, a fraction, an exponent
   and a suffix, the whole token is an integer literal or a float literal of
   the number grammar: digits followed by other characters are never parsed
   as the integer they begin with. *)
C28_WholeTokenNumbers ==
    (TokenParsed /\ raised = "") => (IntegerLiteral \/ FloatLiteral \/ DotLiteral)

\* the operations of a TagList that change it and check what they are given
ListMutators ==
    {"list_setitem", "list_setslice", "list_insert", "list_append", "list_extend"}

(* C29: atomic list mutation failure.  Whenever an index assignment, a slice
   assignment, an insert, an append or an extend of a TagList raises
   NbtInvalidOperation, the list's elements and its item_cls are what they
   were before the call: no element of a rejected batch has been added. *)
C29_AtomicListMutation ==
    [][(op' \in ListMutators /\ raised' = "NbtInvalidOperation") => tag' = tag]_vars

====
